---- MODULE Spec2Model ----
(***************************************************************************)
(* Knox: key model and rotation state machine, key manager over the        *)
(* optimistic-concurrency storage, and the HTTP handlers that call it.     *)
(***************************************************************************)
EXTENDS Integers, Sequences, FiniteSets, TLC

(***************************************************************************)
(* Bounds of the model.                                                    *)
(***************************************************************************)
MaxVersionID == 2
MaxVersions == 3
MaxTime == 2
MaxRequests == 2
MaxHeaderLen == 3
MaxACLLen == 3
MaxDefaults == 2
MaxCycles == 2
MaxCommands == 1
MaxFileLen == 3
MaxBatch == 2

(***************************************************************************)
(* Enumerations of package knox.                                           *)
(***************************************************************************)
Primary == 0
Active == 1
Inactive == 2

None == 0
Read == 1
Write == 2
Admin == 3

Unknown == -1
User == 1
UserGroup == 2
Machine == 3
MachinePrefix == 4
Service == 5

OKCode == 0
InternalServerErrorCode == 1
KeyIdentifierExistsCode == 2
KeyVersionDoesNotExistCode == 3
KeyIdentifierDoesNotExistCode == 4
UnauthenticatedCode == 5
UnauthorizedCode == 6
NoKeyIDCode == 9
NoKeyDataCode == 10
BadRequestDataCode == 11
BadKeyFormatCode == 12
BadPrincipalIdentifier == 13

VersionStatuses == {Primary, Active, Inactive}
AccessTypes == {None, Read, Write, Admin}

Nil == "nil"
ErrACLDuplicateEntries == "ErrACLDuplicateEntries"
ErrACLContainsNone == "ErrACLContainsNone"
ErrInvalidKeyID == "ErrInvalidKeyID"
ErrInvalidVersionHash == "ErrInvalidVersionHash"
ErrInactiveToPrimary == "ErrInactiveToPrimary"
ErrPrimaryToActive == "ErrPrimaryToActive"
ErrPrimaryToInactive == "ErrPrimaryToInactive"
ErrMulitplePrimary == "ErrMulitplePrimary"
ErrSameVersionID == "ErrSameVersionID"
ErrInvalidStatus == "ErrInvalidStatus"
ErrKeyVersionNotFound == "ErrKeyVersionNotFound"
ErrKeyIDNotFound == "ErrKeyIDNotFound"
ErrKeyExists == "ErrKeyExists"
ErrDBVersion == "ErrDBVersion"
ErrCryptorVersion == "ErrCryptorVersion"

(***************************************************************************)
(* Input alphabets.  Identifiers are sequences of characters so that the   *)
(* character class of key ids and the prefix match of machines are         *)
(* computed, not assumed.                                                  *)
(***************************************************************************)
VersionIDs == 0..MaxVersionID
DataInputs == {"d1", "d2"}

Min(S) == CHOOSE x \in S : \A y \in S : x <= y

Range(s) == {s[i] : i \in 1..Len(s)}

(***************************************************************************)
(* KeyVersion and KeyVersionList.                                          *)
(***************************************************************************)
KeyVersion(id, d, s, t) == [ID |-> id, Data |-> d, Status |-> s, CreationTime |-> t]

\* Less orders by (status, id).
Less(a, b) ==
    IF a.Status = b.Status THEN a.ID < b.ID ELSE a.Status < b.Status

RECURSIVE SortKVL(_)
\* sort.Sort(kvl): ascending by Less.
SortKVL(kvl) ==
    IF Len(kvl) <= 1 THEN kvl
    ELSE LET m == CHOOSE i \in 1..Len(kvl) :
                     \A j \in 1..Len(kvl) : ~Less(kvl[j], kvl[i])
             rest == [j \in 1..(Len(kvl) - 1) |-> IF j < m THEN kvl[j] ELSE kvl[j + 1]]
         IN <<kvl[m]>> \o SortKVL(rest)

\* The buffer handed to SHA-256: one 8-byte little-endian word per version of
\* the list, the ids of the non-Inactive versions first, in sorted order, the
\* remaining words zero.  A word is modelled by the integer it encodes.
HashBuffer(kvl) ==
    LET sorted == SortKVL(kvl)
        live == SelectSeq(sorted, LAMBDA kv : kv.Status # Inactive)
    IN [i \in 1..Len(kvl) |-> IF i <= Len(live) THEN live[i].ID ELSE 0]

\* KeyVersionList.Hash, with SHA-256 and the hex encoding taken as injective.
Hash(kvl) == <<"sha256", HashBuffer(kvl)>>

\* KeyVersionList.Validate.
RECURSIVE KVLValidateFrom(_, _, _, _)
KVLValidateFrom(kvl, i, seen, primaryCount) ==
    IF i > Len(kvl)
    THEN IF primaryCount # 1 THEN ErrMulitplePrimary ELSE Nil
    ELSE IF kvl[i].ID \in seen THEN ErrSameVersionID
         ELSE KVLValidateFrom(kvl, i + 1, seen \cup {kvl[i].ID},
                  IF kvl[i].Status = Primary THEN primaryCount + 1 ELSE primaryCount)

KVLValidate(kvl) == KVLValidateFrom(kvl, 1, {}, 0)

\* KeyVersionList.GetActive.
GetActive(kvl) == SelectSeq(kvl, LAMBDA k : k.Status = Active \/ k.Status = Primary)

\* KeyVersionList.GetPrimary: the first Primary version (every stored list has one).
GetPrimary(kvl) == kvl[Min({i \in 1..Len(kvl) : kvl[i].Status = Primary})]

\* A mutant of KVLUpdate: promotion does not demote the current Primary.
KVLUpdateNoDemote(kvl, versionID, s) ==
    LET idx == {i \in 1..Len(kvl) : kvl[i].ID = versionID}
        i == Min(idx)
    IN IF idx = {} THEN [err |-> ErrKeyVersionNotFound, kvl |-> kvl]
       ELSE IF s = Primary /\ kvl[i].Status = Active
            THEN [err |-> Nil, kvl |-> [kvl EXCEPT ![i].Status = Primary]]
       ELSE IF s = Primary THEN [err |-> ErrInactiveToPrimary, kvl |-> kvl]
       ELSE IF s = Active /\ kvl[i].Status = Inactive
            THEN [err |-> Nil, kvl |-> [kvl EXCEPT ![i].Status = Active]]
       ELSE IF s = Active THEN [err |-> ErrPrimaryToActive, kvl |-> kvl]
       ELSE IF s = Inactive /\ kvl[i].Status = Active
            THEN [err |-> Nil, kvl |-> [kvl EXCEPT ![i].Status = Inactive]]
       ELSE [err |-> ErrPrimaryToInactive, kvl |-> kvl]

\* A mutant of KVLUpdate: the promotion guard tests "not Primary" instead of
\* "Active", so an Inactive version can be promoted.
KVLUpdateWeakGuard(kvl, versionID, s) ==
    LET idx == {i \in 1..Len(kvl) : kvl[i].ID = versionID}
        i == Min(idx)
    IN IF idx = {} THEN [err |-> ErrKeyVersionNotFound, kvl |-> kvl]
       ELSE IF s = Primary /\ kvl[i].Status # Primary
            THEN [err |-> Nil,
                  kvl |-> [j \in 1..Len(kvl) |->
                             IF j = i THEN [kvl[j] EXCEPT !.Status = Primary]
                             ELSE IF kvl[j].Status = Primary
                                  THEN [kvl[j] EXCEPT !.Status = Active]
                                  ELSE kvl[j]]]
       ELSE IF s = Primary THEN [err |-> ErrInactiveToPrimary, kvl |-> kvl]
       ELSE IF s = Active /\ kvl[i].Status = Inactive
            THEN [err |-> Nil, kvl |-> [kvl EXCEPT ![i].Status = Active]]
       ELSE IF s = Active THEN [err |-> ErrPrimaryToActive, kvl |-> kvl]
       ELSE IF s = Inactive /\ kvl[i].Status = Active
            THEN [err |-> Nil, kvl |-> [kvl EXCEPT ![i].Status = Inactive]]
       ELSE [err |-> ErrPrimaryToInactive, kvl |-> kvl]

\* KeyVersionList.Update.  The list is changed in place; "kvl" is the content
\* of the caller's list when the call returns, "err" the returned error.
KVLUpdate(kvl, versionID, s) ==
    LET idx == {i \in 1..Len(kvl) : kvl[i].ID = versionID}
        i == Min(idx)
    IN IF idx = {} THEN [err |-> ErrKeyVersionNotFound, kvl |-> kvl]
       ELSE CASE s = Primary ->
                   IF kvl[i].Status # Active
                   THEN [err |-> ErrInactiveToPrimary, kvl |-> kvl]
                   ELSE [err |-> Nil,
                         kvl |-> [j \in 1..Len(kvl) |->
                                    IF j = i THEN [kvl[j] EXCEPT !.Status = Primary]
                                    ELSE IF kvl[j].Status = Primary
                                         THEN [kvl[j] EXCEPT !.Status = Active]
                                         ELSE kvl[j]]]
              [] s = Active ->
                   IF kvl[i].Status # Inactive
                   THEN [err |-> ErrPrimaryToActive, kvl |-> kvl]
                   ELSE [err |-> Nil, kvl |-> [kvl EXCEPT ![i].Status = Active]]
              [] s = Inactive ->
                   IF kvl[i].Status # Active
                   THEN [err |-> ErrPrimaryToInactive, kvl |-> kvl]
                   ELSE [err |-> Nil, kvl |-> [kvl EXCEPT ![i].Status = Inactive]]
              [] OTHER -> [err |-> Nil, kvl |-> kvl]

(***************************************************************************)
(* ACL.                                                                    *)
(***************************************************************************)
Access(t, id, a) == [Type |-> t, ID |-> id, AccessType |-> a]

\* AccessType.CanAccess.
AccessCanAccess(s, resource) == s >= resource

\* ACL.Validate: the first offending entry decides the error.
ACLValidate(acl) ==
    LET dup(i) == \E j \in 1..Len(acl) :
                      i # j /\ acl[i].ID = acl[j].ID /\ acl[i].Type = acl[j].Type
        bad == {i \in 1..Len(acl) : acl[i].AccessType = None \/ dup(i)}
    IN IF bad = {} THEN Nil
       ELSE IF acl[Min(bad)].AccessType = None THEN ErrACLContainsNone
       ELSE ErrACLDuplicateEntries

\* A mutant of ACL.Add: an entry given with access None is stored like any
\* other instead of removing the principal's entry.
ACLAddKeepsNone(acl, a) ==
    LET hit == {i \in 1..Len(acl) : acl[i].Type = a.Type /\ acl[i].ID = a.ID}
    IN IF hit # {}
       THEN [ret |-> [acl EXCEPT ![Min(hit)] = a], recv |-> acl]
       ELSE [ret |-> Append(acl, a), recv |-> acl]

\* ACL.Add.  "ret" is the returned ACL; "recv" is what the receiver's slice
\* holds when the call returns (the removal shifts the tail of the shared
\* backing array to the left).
ACLAdd(acl, a) ==
    LET hit == {i \in 1..Len(acl) : acl[i].Type = a.Type /\ acl[i].ID = a.ID}
        i == Min(hit)
        n == Len(acl)
    IN IF hit # {}
       THEN IF a.AccessType = None
            THEN LET cut == [j \in 1..(n - 1) |-> IF j < i THEN acl[j] ELSE acl[j + 1]]
                 IN [ret |-> cut, recv |-> cut \o <<acl[n]>>]
            ELSE [ret |-> [acl EXCEPT ![i] = a], recv |-> acl]
       ELSE IF a.AccessType = None
            THEN [ret |-> acl, recv |-> acl]
            ELSE [ret |-> Append(acl, a), recv |-> acl]

(***************************************************************************)
(* Principals (package auth).                                              *)
(***************************************************************************)
NewUser(id, groups) == [kind |-> "user", ID |-> id, groups |-> groups]
NewMachine(id) == [kind |-> "machine", ID |-> id, groups |-> {}]

IsUser(p) == p.kind = "user"

\* strings.HasPrefix.
HasPrefix(s, prefix) ==
    Len(prefix) <= Len(s) /\ \A i \in 1..Len(prefix) : s[i] = prefix[i]

\* user.CanAccess.
UserCanAccess(u, acl, t) ==
    \E i \in 1..Len(acl) :
        \/ acl[i].Type = User /\ acl[i].ID = u.ID /\ AccessCanAccess(acl[i].AccessType, t)
        \/ acl[i].Type = UserGroup /\ acl[i].ID \in u.groups
               /\ AccessCanAccess(acl[i].AccessType, t)

\* machine.CanAccess.
MachineCanAccess(m, acl, t) ==
    \E i \in 1..Len(acl) :
        \/ acl[i].Type = Machine /\ acl[i].ID = m.ID /\ AccessCanAccess(acl[i].AccessType, t)
        \/ acl[i].Type = MachinePrefix /\ HasPrefix(m.ID, acl[i].ID)
               /\ AccessCanAccess(acl[i].AccessType, t)

\* Principal.CanAccess, by the dynamic type of the principal.
CanAccess(p, acl, t) ==
    IF p.kind = "user" THEN UserCanAccess(p, acl, t) ELSE MachineCanAccess(p, acl, t)

\* PrincipalType.IsValidPrincipal with no extra validators registered.
IsValidPrincipal(a) == a.ID # <<>>

(***************************************************************************)
(* Key.                                                                    *)
(***************************************************************************)
KeyIDChars ==
    {"a","b","c","d","e","f","g","h","i","j","k","l","m","n","o","p","q","r","s",
     "t","u","v","w","x","y","z","A","B","C","D","E","F","G","H","I","J","K","L",
     "M","N","O","P","Q","R","S","T","U","V","W","X","Y","Z","0","1","2","3","4",
     "5","6","7","8","9","_",":"}

\* The regular expression ^[a-zA-Z0-9_:]+$ of Key.Validate.
MatchKeyID(id) == Len(id) >= 1 /\ \A i \in 1..Len(id) : id[i] \in KeyIDChars

\* A mutant of Key.Validate: the ACL is not validated.
KeyValidateSkipsACL(k) ==
    IF ~MatchKeyID(k.ID) THEN ErrInvalidKeyID
    ELSE IF KVLValidate(k.VersionList) # Nil THEN KVLValidate(k.VersionList)
    ELSE IF k.VersionHash # Hash(k.VersionList) THEN ErrInvalidVersionHash
    ELSE Nil

\* Key.Validate.
KeyValidate(k) ==
    IF ~MatchKeyID(k.ID) THEN ErrInvalidKeyID
    ELSE IF ACLValidate(k.ACL) # Nil THEN ACLValidate(k.ACL)
    ELSE IF KVLValidate(k.VersionList) # Nil THEN KVLValidate(k.VersionList)
    ELSE IF k.VersionHash # Hash(k.VersionList) THEN ErrInvalidVersionHash
    ELSE Nil

(***************************************************************************)
(* Cryptor (package keydb).  The AEAD is modelled by a sealed box that     *)
(* opens only under the nonce and the associated data it was sealed with.  *)
(***************************************************************************)
CryptorVersionByte == 0
Nonces == {"n1"}

\* generateAD: versionid | creationtime | keyid.
GenerateAD(kid, vid, creation) == <<vid, creation, kid>>

Seal(nonce, data, ad) == [nonce |-> nonce, ad |-> ad, pt |-> data]

\* aesGCMCryptor.EncryptVersion.
EncryptVersion(k, v, nonce) ==
    [ID |-> v.ID,
     EncData |-> Seal(nonce, v.Data, GenerateAD(k.ID, v.ID, v.CreationTime)),
     Status |-> v.Status,
     CreationTime |-> v.CreationTime,
     CryptoMetadata |-> <<CryptorVersionByte, nonce>>]

\* aesGCMCryptor.decryptVersion.
DecryptVersion(k, v) ==
    IF v.CryptoMetadata[1] # CryptorVersionByte
    THEN [err |-> ErrCryptorVersion, v |-> KeyVersion(0, "", 0, 0)]
    ELSE IF v.EncData.nonce # v.CryptoMetadata[2]
            \/ v.EncData.ad # GenerateAD(k.ID, v.ID, v.CreationTime)
    THEN [err |-> "ErrOpen", v |-> KeyVersion(0, "", 0, 0)]
    ELSE [err |-> Nil, v |-> KeyVersion(v.ID, v.EncData.pt, v.Status, v.CreationTime)]

DBKey(id, acl, vl, hash, dbv) ==
    [ID |-> id, ACL |-> acl, VersionList |-> vl, VersionHash |-> hash, DBVersion |-> dbv]

Key(id, acl, vl, hash) == [ID |-> id, ACL |-> acl, VersionList |-> vl, VersionHash |-> hash]

NoKey == Key(<<>>, <<>>, <<>>, <<>>)
NoDBKey == DBKey(<<>>, <<>>, <<>>, <<>>, 0)

\* aesGCMCryptor.Encrypt: the DBVersion of the result is the zero value.
Encrypt(k, nonce) ==
    DBKey(k.ID, k.ACL,
          [i \in 1..Len(k.VersionList) |-> EncryptVersion(k, k.VersionList[i], nonce)],
          k.VersionHash, 0)

\* aesGCMCryptor.Decrypt.
Decrypt(dbk) ==
    LET dec == [i \in 1..Len(dbk.VersionList) |-> DecryptVersion(dbk, dbk.VersionList[i])]
        failed == {i \in 1..Len(dec) : dec[i].err # Nil}
    IN IF failed # {} THEN [err |-> dec[Min(failed)].err, key |-> NoKey]
       ELSE [err |-> Nil,
             key |-> Key(dbk.ID, dbk.ACL, [i \in 1..Len(dec) |-> dec[i].v], dbk.VersionHash)]

(***************************************************************************)
(* TempDB (package keydb): the stored keys, each call atomic under the     *)
(* lock of the database.  "t" is the reading of time.Now().UnixNano().     *)
(***************************************************************************)
DBIndex(ks, id) ==
    LET hit == {i \in 1..Len(ks) : ks[i].ID = id}
    IN IF hit = {} THEN 0 ELSE Min(hit)

\* TempDB.Get.
TempDBGet(ks, id) ==
    IF DBIndex(ks, id) = 0 THEN [err |-> ErrKeyIDNotFound, key |-> NoDBKey]
    ELSE [err |-> Nil, key |-> ks[DBIndex(ks, id)]]

\* A mutant of TempDBUpdate: the record is stamped before the tokens are compared.
TempDBUpdateStampOnConflict(ks, key, t) ==
    LET i == DBIndex(ks, key.ID)
    IN IF i = 0 THEN [err |-> ErrKeyIDNotFound, keys |-> ks]
       ELSE IF ks[i].DBVersion # key.DBVersion
            THEN [err |-> ErrDBVersion, keys |-> [ks EXCEPT ![i].DBVersion = t]]
       ELSE [err |-> Nil, keys |-> [ks EXCEPT ![i] = [key EXCEPT !.DBVersion = t]]]

\* A mutant of TempDBUpdate: the version token is not compared.
TempDBUpdateNoCheck(ks, key, t) ==
    LET i == DBIndex(ks, key.ID)
    IN IF i = 0 THEN [err |-> ErrKeyIDNotFound, keys |-> ks]
       ELSE [err |-> Nil, keys |-> [ks EXCEPT ![i] = [key EXCEPT !.DBVersion = t]]]

\* A mutant of TempDBUpdate: the record is written before the tokens are
\* compared.
TempDBUpdateWriteThenCheck(ks, key, t) ==
    LET i == DBIndex(ks, key.ID)
    IN IF i = 0 THEN [err |-> ErrKeyIDNotFound, keys |-> ks]
       ELSE [err |-> IF ks[i].DBVersion # key.DBVersion THEN ErrDBVersion ELSE Nil,
             keys |-> [ks EXCEPT ![i] = [key EXCEPT !.DBVersion = t]]]

\* TempDB.Update.
TempDBUpdate(ks, key, t) ==
    LET i == DBIndex(ks, key.ID)
    IN IF i = 0 THEN [err |-> ErrKeyIDNotFound, keys |-> ks]
       ELSE IF ks[i].DBVersion # key.DBVersion THEN [err |-> ErrDBVersion, keys |-> ks]
       ELSE [err |-> Nil, keys |-> [ks EXCEPT ![i] = [key EXCEPT !.DBVersion = t]]]

\* TempDB.Add of one key.
TempDBAdd(ks, key, t) ==
    IF DBIndex(ks, key.ID) # 0 THEN [err |-> ErrKeyExists, keys |-> ks]
    ELSE [err |-> Nil, keys |-> Append(ks, [key EXCEPT !.DBVersion = t])]

\* TempDB.Remove.
TempDBRemove(ks, id) ==
    LET i == DBIndex(ks, id)
    IN IF i = 0 THEN [err |-> ErrKeyIDNotFound, keys |-> ks]
       ELSE [err |-> Nil,
             keys |-> [j \in 1..(Len(ks) - 1) |-> IF j < i THEN ks[j] ELSE ks[j + 1]]]

(***************************************************************************)
(* Key manager (package server): the computation of each mutation between *)
(* its db.Get and its db.Update.  "key" is the record handed to db.Update. *)
(***************************************************************************)
ErrDecrypting == "Error decrypting key"

\* keyManager.GetKey on the record db.Get returned.
GetKeyFrom(got, status) ==
    LET d == Decrypt(got.key)
    IN IF got.err # Nil THEN [err |-> got.err, key |-> NoKey]
       ELSE IF d.err # Nil THEN [err |-> ErrDecrypting, key |-> NoKey]
       ELSE CASE status = Inactive -> [err |-> Nil, key |-> d.key]
              [] status = Active ->
                   [err |-> Nil,
                    key |-> [d.key EXCEPT !.VersionList = GetActive(d.key.VersionList)]]
              [] status = Primary ->
                   [err |-> Nil,
                    key |-> [d.key EXCEPT !.VersionList = <<GetPrimary(d.key.VersionList)>>]]
              [] OTHER -> [err |-> ErrInvalidStatus, key |-> NoKey]

\* keyManager.UpdateAccess.
UpdateAccessNew(encK, a) ==
    LET newACL == ACLAdd(encK.ACL, a).ret
    IN [err |-> ACLValidate(newACL), key |-> [encK EXCEPT !.ACL = newACL]]

\* keyManager.AddVersion.
\* A mutant of AddVersionNew: the new version is appended twice.
AddVersionNewTwice(encK, v, nonce) ==
    LET d == Decrypt(encK)
        vl == Append(d.key.VersionList, v)
        k == [d.key EXCEPT !.VersionList = vl, !.VersionHash = Hash(vl)]
    IN IF d.err # Nil THEN [err |-> ErrDecrypting, key |-> encK]
       ELSE IF KeyValidate(k) # Nil THEN [err |-> KeyValidate(k), key |-> encK]
       ELSE [err |-> Nil,
             key |-> [encK EXCEPT !.VersionList =
                                      @ \o <<EncryptVersion(k, v, nonce),
                                              EncryptVersion(k, v, nonce)>>,
                                  !.VersionHash = Hash(k.VersionList)]]

AddVersionNew(encK, v, nonce) ==
    LET d == Decrypt(encK)
        vl == Append(d.key.VersionList, v)
        k == [d.key EXCEPT !.VersionList = vl, !.VersionHash = Hash(vl)]
    IN IF d.err # Nil THEN [err |-> ErrDecrypting, key |-> encK]
       ELSE IF KeyValidate(k) # Nil THEN [err |-> KeyValidate(k), key |-> encK]
       ELSE [err |-> Nil,
             key |-> [encK EXCEPT !.VersionList = Append(@, EncryptVersion(k, v, nonce)),
                                  !.VersionHash = Hash(k.VersionList)]]

\* A mutant of ApplyStatuses: only the promoted version is written back.
ApplyStatusesPrimaryOnly(encVL, kvl) ==
    [j \in 1..Len(encVL) |->
        LET m == {i \in 1..Len(kvl) :
                     kvl[i].ID = encVL[j].ID /\ kvl[i].Status # Active}
        IN IF m = {} THEN encVL[j]
           ELSE [encVL[j] EXCEPT !.Status = kvl[Min(m)].Status]]

\* The write-back loop of keyManager.UpdateVersion: every stored version takes
\* the status of the version of kvl with its id (the last one, if several).
ApplyStatuses(encVL, kvl) ==
    [j \in 1..Len(encVL) |->
        LET m == {i \in 1..Len(kvl) : kvl[i].ID = encVL[j].ID}
        IN IF m = {} THEN encVL[j]
           ELSE [encVL[j] EXCEPT !.Status = kvl[CHOOSE i \in m : \A i2 \in m : i2 <= i].Status]]

\* keyManager.UpdateVersion.  Hash sorts the updated list in place.
UpdateVersionNew(encK, versionID, s) ==
    LET d == Decrypt(encK)
        u == KVLUpdate(d.key.VersionList, versionID, s)
        kvl == SortKVL(u.kvl)
        k == [d.key EXCEPT !.VersionList = kvl, !.VersionHash = Hash(u.kvl)]
    IN IF d.err # Nil THEN [err |-> ErrDecrypting, key |-> encK]
       ELSE IF u.err # Nil THEN [err |-> u.err, key |-> encK]
       ELSE IF KeyValidate(k) # Nil THEN [err |-> KeyValidate(k), key |-> encK]
       ELSE [err |-> Nil,
             key |-> [encK EXCEPT !.VersionList = ApplyStatuses(@, kvl),
                                  !.VersionHash = k.VersionHash]]

(***************************************************************************)
(* Server api: key construction and the error mapping of the handlers.     *)
(***************************************************************************)
SecurityTeam == <<"s", "t">>

\* defaultAccess as the server's main function configures it.
defaultAccess == <<Access(UserGroup, SecurityTeam, Admin)>>

RECURSIVE ACLAddAll(_, _)
ACLAddAll(acl, as) ==
    IF as = <<>> THEN acl ELSE ACLAddAll(ACLAdd(acl, Head(as)).ret, Tail(as))

\* newKeyVersion.
newKeyVersion(d, s, id, t) == KeyVersion(id, d, s, t)

\* newKey, with the value of the package variable defaultAccess as "defaults".
newKeyWith(id, acl, d, u, vid, t, defaults) ==
    LET vl == <<newKeyVersion(d, Primary, vid, t)>>
    IN Key(id, ACLAddAll(ACLAdd(acl, Access(User, u.ID, Admin)).ret, defaults),
           vl, Hash(vl))

\* newKey in the server that main configures.
newKey(id, acl, d, u, vid, t) == newKeyWith(id, acl, d, u, vid, t, defaultAccess)

\* The subcode for a failed initial GetKey of a handler.
GetErrCode(err) ==
    IF err = ErrKeyIDNotFound THEN KeyIdentifierDoesNotExistCode
    ELSE InternalServerErrorCode

\* postKeysHandler: the subcode for the result of AddNewKey.
PostKeysCode(err) ==
    IF err = Nil THEN OKCode
    ELSE IF err = ErrKeyExists THEN KeyIdentifierExistsCode
    ELSE IF err = ErrInvalidKeyID THEN BadKeyFormatCode
    ELSE InternalServerErrorCode

\* putVersionsHandler: the subcode for the result of UpdateVersion.
PutVersionCode(err) ==
    IF err = Nil THEN OKCode
    ELSE IF err = ErrKeyVersionNotFound THEN KeyVersionDoesNotExistCode
    ELSE IF err \in {ErrPrimaryToInactive, ErrPrimaryToActive, ErrInactiveToPrimary}
         THEN BadRequestDataCode
    ELSE InternalServerErrorCode

\* deleteKeyHandler, putAccessHandler, postVersionHandler: the subcode for the
\* result of the mutation.
MutationCode(err) == IF err = Nil THEN OKCode ELSE InternalServerErrorCode

\* The subcode a handler answers with for the result of its key-manager call.
ResultCode(op, err) ==
    IF op = "putVersion" THEN PutVersionCode(err) ELSE MutationCode(err)

\* A mutant of RequiredAccess: Read is enough to rotate and to add versions.
RequiredAccessWeak(op) ==
    IF op \in {"deleteKey", "putAccess"} THEN Admin ELSE Read

\* The access level each handler demands of the principal.
RequiredAccess(op) ==
    CASE op \in {"deleteKey", "putAccess"} -> Admin
      [] op \in {"postVersion", "putVersion"} -> Write
      [] OTHER -> Read

\* getKeyHandler without its authorization: a mutant of GetKeyResult.
GetKeyResultNoAuth(p, got) ==
    IF got.err # Nil THEN [code |-> GetErrCode(got.err), data |-> NoKey]
    ELSE [code |-> OKCode, data |-> [got.key EXCEPT !.ACL = <<>>]]

\* getKeyHandler on the result of its GetKey: subcode and response data.
GetKeyResult(p, got) ==
    IF got.err # Nil THEN [code |-> GetErrCode(got.err), data |-> NoKey]
    ELSE IF ~CanAccess(p, got.key.ACL, Read) THEN [code |-> UnauthorizedCode, data |-> NoKey]
    ELSE [code |-> OKCode, data |-> [got.key EXCEPT !.ACL = <<>>]]

\* A mutant of AfterUpdate: the manager reads the key again after a conflict.
AfterUpdateRetry(err) == IF err = ErrDBVersion THEN "mgrGet" ELSE "done"

\* Where a mutation of the key manager continues once db.Update has returned
\* "err": it returns that result to the handler.
AfterUpdate(err) == "done"

(***************************************************************************)
(* Authentication (package server, decorators.go) and the providers main   *)
(* registers.  A byte of the Authorization header is a one-character       *)
(* string.                                                                 *)
(***************************************************************************)
Provider(name, version, type) == [name |-> name, version |-> version, type |-> type]

\* The providers in the order main hands them to Authentication.
Providers ==
    <<Provider("mtls", "0", "t"), Provider("github", "0", "u"),
      Provider("spiffe", "0", "s"), Provider("spiffe_fallback", "0", "t")>>

\* A mutant of providerMatch: the version byte is not compared.
providerMatchAnyVersion(provider, a) ==
    IF Len(a) > 2 /\ a[2] = provider.type
    THEN [token |-> SubSeq(a, 3, Len(a)), match |-> TRUE]
    ELSE [token |-> <<>>, match |-> FALSE]

\* providerMatch.
providerMatch(provider, a) ==
    IF Len(a) > 2 /\ a[1] = provider.version /\ a[2] = provider.type
    THEN [token |-> SubSeq(a, 3, Len(a)), match |-> TRUE]
    ELSE [token |-> <<>>, match |-> FALSE]

\* A nil knox.Principal.
NoPrincipal == [kind |-> "none"]

ErrAuthenticate == "authentication failed"
ErrNoMatchingProvider == "No matching authentication providers found"

\* What Provider.Authenticate can return for a token: a principal, or the
\* error of a certificate or of an API call that does not verify.
Authenticate(provider, token) ==
    {[principal |-> IF provider.name = "github" THEN NewUser(token, {})
                    ELSE IF provider.name = "mtls" THEN NewMachine(token)
                    ELSE [kind |-> "service", ID |-> token],
      err |-> Nil],
     [principal |-> NoPrincipal, err |-> ErrAuthenticate]}

(***************************************************************************)
(* The server: requests in flight over one TempDB.  Every call of the      *)
(* database is one atomic step; a handler is the sequence of its calls.    *)
(***************************************************************************)
VARIABLES
    keys,   \* TempDB.keys
    now,    \* the last reading of time.Now().UnixNano()
    req,    \* the requests in flight, by slot
    resp,   \* the response the last step wrote, if it wrote one
    nreq,   \* requests received so far
    kvl,    \* a KeyVersionList under rotation
    upd,    \* the last call of KeyVersionList.Update on kvl
    cli,    \* the calls of HTTPClient.getHTTPData in progress, by slot
    call,   \* the last call of DB.Update made directly on the database
    issued, \* the tokens the database has stamped on records in direct calls
    auth,   \* the Authentication decorator at work on one request
    fn      \* the last call of a function of package knox or server made on its own

serverVars == <<keys, now, req, resp, nreq>>
kvlVars == <<kvl, upd>>
otherVars == <<kvl, upd, cli, call, issued, auth, fn>>
vars == <<keys, now, req, resp, nreq, kvl, upd, cli, call, issued, auth, fn>>

Reqs == {"r1", "r2"}

\* What time.Now().UnixNano() can return: no less than its last reading.
Clock == now..MaxTime

\* Slots are taken in order: a request uses the first free slot.
SlotBefore(a, b) == a = "r1" /\ b = "r2"

U1 == NewUser(<<"u", "1">>, {})
U2 == NewUser(<<"u", "2">>, {SecurityTeam})
M1 == NewMachine(<<"m", "1">>)
Principals == {U1, U2, M1}

K1 == <<"k", "1">>
BadKeyID == <<"k", "-">>
KeyIDInputs == {K1, BadKeyID}
ACLInputs == {<<>>}
\* ACLs of a request that Key.Validate refuses: an entry with access None, and
\* two entries for one principal.
InvalidACLInputs ==
    {<<Access(User, U2.ID, None)>>,
     <<Access(User, U2.ID, Read), Access(User, U2.ID, Write)>>}
AccessInputs ==
    {Access(User, U1.ID, None), Access(MachinePrefix, <<"m">>, Read),
     Access(MachinePrefix, <<>>, Read)}
ServerData == {"d1"}

MutatingOps == {"deleteKey", "putAccess", "postVersion", "putVersion"}

NoAccess == Access(Unknown, <<>>, None)
NoVersion == KeyVersion(0, "", Primary, 0)
NoCode == 0 - 1

Request(op, p, id, acl, a, vid, s, d) ==
    [op |-> op, pc |-> "handler", principal |-> p, keyID |-> id, acl |-> acl,
     access |-> a, versionID |-> vid, status |-> s, data |-> d,
     version |-> NoVersion, seen |-> NoDBKey, encK |-> NoDBKey,
     nGet |-> 0, nUpdate |-> 0]

IdleReq ==
    [Request("none", U1, <<>>, <<>>, NoAccess, 0, Primary, "") EXCEPT !.pc = "idle"]

\* The requests the clients send, by route, with well-formed parameters: U1
\* creates, reads and rotates keys, U2 of the security team administers them,
\* the machine M1 tries every route.
RequestInputs ==
    {Request("postKeys", p, id, acl, NoAccess, 0, Primary, d) :
        p \in {U1, M1}, id \in KeyIDInputs, acl \in ACLInputs, d \in ServerData}
    \cup {Request("postKeys", U1, K1, acl, NoAccess, 0, Primary, "d1") :
        acl \in InvalidACLInputs}
    \cup {Request("getKey", U1, K1, <<>>, NoAccess, 0, s, "") : s \in VersionStatuses}
    \cup {Request("getKey", p, K1, <<>>, NoAccess, 0, Active, "") : p \in {U2, M1}}
    \cup {Request("deleteKey", p, K1, <<>>, NoAccess, 0, Primary, "") : p \in Principals}
    \cup {Request("putAccess", p, K1, <<>>, a, 0, Primary, "") :
        p \in {U1, U2}, a \in AccessInputs}
    \cup {Request("putAccess", M1, K1, <<>>, Access(MachinePrefix, <<"m">>, Read),
                  0, Primary, "")}
    \cup {Request("postVersion", p, K1, <<>>, NoAccess, 0, Primary, d) :
        p \in {U1, M1}, d \in ServerData}
    \cup {Request("putVersion", U1, K1, <<>>, NoAccess, vid, s, "") :
        vid \in VersionIDs, s \in VersionStatuses}
    \cup {Request("putVersion", M1, K1, <<>>, NoAccess, 1, Inactive, "")}

\* The response to a request: the route, the principal, the subcode, the data,
\* and what the key-manager call returned and did.
Response(q, code, data, err) ==
    [slot |-> "", op |-> q.op, principal |-> q.principal, keyID |-> q.keyID,
     access |-> q.access, versionID |-> q.versionID, status |-> q.status,
     code |-> code, data |-> data, err |-> err, nGet |-> q.nGet, nUpdate |-> q.nUpdate]

NoResponse == Response(IdleReq, NoCode, NoKey, Nil)

\* The store after POST /v0/keys/ by U1 followed by one POST version.
SeedKeys ==
    LET k == newKey(K1, <<>>, "d1", U1, 0, 1)
        added == TempDBAdd(<<>>, Encrypt(k, "n1"), 1).keys
        v == newKeyVersion("d1", Active, 1, 1)
        new == AddVersionNew(TempDBGet(added, K1).key, v, "n1").key
    IN TempDBUpdate(added, new, 1).keys

\* The store after one more POST version and the PUT that deactivates it.
SeedKeysInactive ==
    LET v == newKeyVersion("d1", Active, 2, 1)
        new == AddVersionNew(TempDBGet(SeedKeys, K1).key, v, "n1").key
        added == TempDBUpdate(SeedKeys, new, 1).keys
        off == UpdateVersionNew(TempDBGet(added, K1).key, 2, Inactive).key
    IN TempDBUpdate(added, off, 1).keys

\* The stores a run starts from: the empty store of NewTempDB, and two stores
\* that earlier requests have left.
InitialStores == {<<>>, SeedKeys, SeedKeysInactive}

ServerInit ==
    /\ keys \in InitialStores
    /\ now = 1
    /\ req = [r \in Reqs |-> IdleReq]
    /\ resp = NoResponse
    /\ nreq = 0

KVLIdle == [called |-> FALSE, versionID |-> 0, status |-> Primary, before |-> <<>>, err |-> Nil]

\* A slot of the client with no call in progress.
IdleClient ==
    [pc |-> "idle", versionID |-> 0, status |-> Primary, attempt |-> 0,
     body |-> "none", inbox |-> NoCode, conflict |-> FALSE, okAt |-> 0, result |-> ""]

\* No direct call on the database.
NoCall ==
    [impl |-> "none", pc |-> "idle", key |-> NoDBKey, before |-> NoDBKey,
     after |-> NoDBKey, seen |-> NoDBKey, err |-> Nil]

\* The tokens of the records of a store.
Tokens(ks) == {ks[i].DBVersion : i \in 1..Len(ks)}

\* No request in the Authentication decorator.
AuthIdle ==
    [pc |-> "idle", header |-> <<>>, i |-> 0, defaultPrincipal |-> NoPrincipal,
     allPrincipals |-> {}, errReturned |-> Nil, code |-> NoCode]

\* No function called on its own.
NoFn == [op |-> "none"]

Init ==
    /\ ServerInit
    /\ kvl = <<>>
    /\ upd = KVLIdle
    /\ cli = [c \in Reqs |-> IdleClient]
    /\ call = NoCall
    /\ issued = {}
    /\ auth = AuthIdle
    /\ fn = NoFn

\* A request can be taken by slot r: the request has been authenticated and its
\* parameters parsed; nothing of it is visible to other requests before the
\* first call its handler makes to the database.
Free(r) ==
    /\ req[r].pc = "idle"
    /\ \A r2 \in Reqs : SlotBefore(r2, r) => req[r2].pc # "idle"
    /\ nreq < MaxRequests

\* The handler of slot r returns: the response is written and the slot is free.
Answer(r, q, code, data, err) ==
    /\ req' = [req EXCEPT ![r] = IdleReq]
    /\ resp' = [Response(q, code, data, err) EXCEPT !.slot = r]

\* The handler of slot r goes on as q.
Continue(r, q) ==
    /\ req' = [req EXCEPT ![r] = q]
    /\ resp' = NoResponse

\* postKeysHandler: newKey, then keyManager.AddNewKey.
HandlerPostKeys(r) ==
    /\ Free(r)
    /\ \E q \in {x \in RequestInputs : x.op = "postKeys"} :
         IF ~IsUser(q.principal)
         THEN /\ Answer(r, q, UnauthorizedCode, NoKey, Nil)
              /\ UNCHANGED <<keys, now>>
         ELSE \E vid \in VersionIDs, nonce \in Nonces, t \in Clock :
                LET key == newKey(q.keyID, q.acl, q.data, q.principal, vid, t)
                    verr == KeyValidate(key)
                    add == TempDBAdd(keys, Encrypt(key, nonce), t)
                    err == IF verr # Nil THEN verr ELSE add.err
                IN /\ keys' = IF verr # Nil THEN keys ELSE add.keys
                   /\ now' = t
                   /\ Answer(r, q, PostKeysCode(err), NoKey, err)
    /\ nreq' = nreq + 1
    /\ UNCHANGED otherVars

\* getKeyHandler.
HandlerGetKey(r) ==
    /\ Free(r)
    /\ \E q \in {x \in RequestInputs : x.op = "getKey"} :
         LET res == GetKeyResult(q.principal,
                                 GetKeyFrom(TempDBGet(keys, q.keyID), q.status))
         IN Answer(r, q, res.code, res.data, Nil)
    /\ nreq' = nreq + 1
    /\ UNCHANGED <<keys, now>>
    /\ UNCHANGED otherVars

\* The first part of deleteKeyHandler, putAccessHandler, postVersionHandler and
\* putVersionsHandler on the request q: GetKey, the authorization on the ACL it
\* returned, and what the handler prepares before it calls the key manager.
Authorize(r, q) ==
    LET read == TempDBGet(keys, q.keyID)
        got == GetKeyFrom(read, IF q.op \in {"deleteKey", "putAccess"} THEN Primary
                                ELSE Inactive)
    IN IF got.err # Nil
       THEN Answer(r, q, GetErrCode(got.err), NoKey, got.err) /\ UNCHANGED now
       ELSE IF ~CanAccess(q.principal, got.key.ACL, RequiredAccess(q.op))
       THEN Answer(r, q, UnauthorizedCode, NoKey, Nil) /\ UNCHANGED now
       ELSE IF q.op = "putAccess" /\ q.access.AccessType # None
               /\ ~IsValidPrincipal(q.access)
       THEN Answer(r, q, BadPrincipalIdentifier, NoKey, Nil) /\ UNCHANGED now
       ELSE IF q.op = "postVersion"
       THEN \E vid \in VersionIDs, t \in Clock :
              /\ Continue(r, [q EXCEPT !.pc = "mgrGet", !.seen = read.key,
                                       !.version = newKeyVersion(q.data, Active, vid, t)])
              /\ now' = t
       ELSE /\ Continue(r, [q EXCEPT !.pc = IF q.op = "deleteKey" THEN "remove"
                                            ELSE "mgrGet",
                                     !.seen = read.key])
            /\ UNCHANGED now

\* A mutating request arrives and its handler runs up to its key-manager call.
HandlerAuthorize(r) ==
    /\ Free(r)
    /\ \E q \in {x \in RequestInputs : x.op \in MutatingOps} : Authorize(r, q)
    /\ nreq' = nreq + 1
    /\ UNCHANGED keys
    /\ UNCHANGED otherVars

\* The db.Get that opens UpdateAccess, AddVersion and UpdateVersion.
ManagerGetStep(r) ==
    LET q == [req[r] EXCEPT !.nGet = @ + 1]
        got == TempDBGet(keys, q.keyID)
    IN
    /\ req[r].pc = "mgrGet"
    /\ IF got.err # Nil
       THEN Answer(r, q, ResultCode(q.op, got.err), NoKey, got.err)
       ELSE Continue(r, [q EXCEPT !.pc = "mgrWrite", !.encK = got.key])
    /\ UNCHANGED <<keys, now, nreq>>

ManagerGet(r) ==
    /\ ManagerGetStep(r)
    /\ UNCHANGED otherVars

\* The rest of UpdateAccess, AddVersion and UpdateVersion: the new record is
\* computed from the record read, and handed to db.Update.
ManagerUpdateStep(r) ==
    LET q == req[r] IN
    /\ q.pc = "mgrWrite"
    /\ \E nonce \in Nonces :
         LET new == CASE q.op = "putAccess" -> UpdateAccessNew(q.encK, q.access)
                      [] q.op = "postVersion" -> AddVersionNew(q.encK, q.version, nonce)
                      [] OTHER -> UpdateVersionNew(q.encK, q.versionID, q.status)
             q2 == [q EXCEPT !.nUpdate = @ + 1]
         IN IF new.err # Nil
            THEN /\ Answer(r, q, ResultCode(q.op, new.err), NoKey, new.err)
                 /\ UNCHANGED <<keys, now>>
            ELSE \E t \in Clock :
                   LET res == TempDBUpdate(keys, new.key, t)
                   IN /\ keys' = res.keys
                      /\ now' = IF res.err = Nil THEN t ELSE now
                      /\ IF AfterUpdate(res.err) = "done"
                         THEN Answer(r, q2, ResultCode(q.op, res.err), NoKey, res.err)
                         ELSE Continue(r, [q2 EXCEPT !.pc = AfterUpdate(res.err)])
    /\ UNCHANGED nreq

ManagerUpdate(r) ==
    /\ ManagerUpdateStep(r)
    /\ UNCHANGED otherVars

\* keyManager.DeleteKey: db.Remove.
ManagerRemove(r) ==
    LET q == req[r]
        res == TempDBRemove(keys, q.keyID)
    IN
    /\ q.pc = "remove"
    /\ keys' = res.keys
    /\ Answer(r, q, MutationCode(res.err), NoKey, res.err)
    /\ UNCHANGED <<now, nreq>>
    /\ UNCHANGED otherVars

Next ==
    \/ \E r \in Reqs : HandlerPostKeys(r)
    \/ \E r \in Reqs : HandlerGetKey(r)
    \/ \E r \in Reqs : HandlerAuthorize(r)
    \/ \E r \in Reqs : ManagerGet(r)
    \/ \E r \in Reqs : ManagerUpdate(r)
    \/ \E r \in Reqs : ManagerRemove(r)

Spec == Init /\ [][Next]_vars

(***************************************************************************)
(* Rotation of one version list: KeyVersionList.Update applied, again and  *)
(* again, to every list a stored key can hold.                             *)
(***************************************************************************)
\* The version lists of stored keys: those KeyVersionList.Validate accepts.
ValidKVLs ==
    LET versions == {KeyVersion(id, d, s, 1) :
                        id \in VersionIDs, d \in DataInputs, s \in VersionStatuses}
    IN {l \in UNION {[1..n -> versions] : n \in 1..MaxVersions} : KVLValidate(l) = Nil}

InitKVL ==
    /\ kvl \in ValidKVLs
    /\ upd = KVLIdle
    /\ cli = [c \in Reqs |-> IdleClient]
    /\ call = NoCall
    /\ issued = {}
    /\ auth = AuthIdle
    /\ fn = NoFn
    /\ keys = <<>>
    /\ now = 1
    /\ req = [r \in Reqs |-> IdleReq]
    /\ resp = NoResponse
    /\ nreq = 0

\* kvl.Update(versionID, s); the list is updated in place.
KVLUpdateCall ==
    /\ \E versionID \in VersionIDs, s \in VersionStatuses :
         LET u == KVLUpdate(kvl, versionID, s)
         IN /\ kvl' = u.kvl
            /\ upd' = [called |-> TRUE, versionID |-> versionID, status |-> s,
                       before |-> kvl, err |-> u.err]
    /\ UNCHANGED serverVars
    /\ UNCHANGED <<cli, call, issued, auth, fn>>

NextKVL == KVLUpdateCall

SpecKVL == InitKVL /\ [][NextKVL]_vars

(***************************************************************************)
(* The database used directly, as its tests use it: calls of Update, by    *)
(* TempDB and by SQLDB, while other callers add and remove records.        *)
(***************************************************************************)
\* The records handed to Update: a record the store has held, with any token
\* and with the ACL kept or emptied.
UpdateInputs ==
    {[k EXCEPT !.DBVersion = v, !.ACL = IF keep THEN @ ELSE <<>>] :
        k \in Range(SeedKeys) \cup Range(SeedKeysInactive),
        v \in 1..MaxTime, keep \in BOOLEAN}

\* The call of Update is recorded: the record of the key's id that its write
\* statement found and left, the one its result was decided on, and the result.
Called(impl, pc, key, before, after, seen, err) ==
    [impl |-> impl, pc |-> pc, key |-> key,
     before |-> TempDBGet(before, key.ID).key, after |-> TempDBGet(after, key.ID).key,
     seen |-> TempDBGet(seen, key.ID).key, err |-> err]

\* TempDB.Update, one critical section.
DBTempUpdate ==
    /\ call.pc # "select"
    /\ \E key \in UpdateInputs, t \in Clock :
         LET res == TempDBUpdate(keys, key, t)
         IN /\ keys' = res.keys
            /\ now' = IF res.err = Nil THEN t ELSE now
            /\ call' = Called("temp", "done", key, keys, res.keys, keys, res.err)
            /\ issued' = IF res.err = Nil THEN issued \cup {t} ELSE issued
    /\ UNCHANGED <<req, resp, nreq, kvl, upd, cli, auth, fn>>

\* The rows the UPDATE statement of SQLDB.Update reports as affected: none
\* when no row has the id and the token; one when it changes the row; a driver
\* that counts changed rows reports none for a row it leaves as it was.
SQLAffected(ks, key, t) ==
    LET i == DBIndex(ks, key.ID)
    IN IF i = 0 \/ ks[i].DBVersion # key.DBVersion THEN {0}
       ELSE IF ks[i] = [key EXCEPT !.DBVersion = t] THEN {0, 1}
       ELSE {1}

\* SQLDB.Update up to RowsAffected: UPDATE ... WHERE id = ? AND last_updated = ?.
DBSQLUpdateExec ==
    /\ call.pc # "select"
    /\ \E key \in UpdateInputs, t \in Clock :
         \E affected \in SQLAffected(keys, key, t) :
            LET i == DBIndex(keys, key.ID)
                after == IF i # 0 /\ keys[i].DBVersion = key.DBVersion
                         THEN [keys EXCEPT ![i] = [key EXCEPT !.DBVersion = t]]
                         ELSE keys
            IN /\ keys' = after
               /\ now' = t
               /\ call' = Called("sql", IF affected = 0 THEN "select" ELSE "done",
                                 key, keys, after, keys, Nil)
               /\ issued' = IF i # 0 /\ keys[i].DBVersion = key.DBVersion
                            THEN issued \cup {t} ELSE issued
    /\ UNCHANGED <<req, resp, nreq, kvl, upd, cli, auth, fn>>

\* SQLDB.Update when no row was affected: a second statement tells a missing
\* key from a stale token.
DBSQLUpdateSelect ==
    /\ call.pc = "select"
    /\ call' = [call EXCEPT !.pc = "done", !.seen = TempDBGet(keys, call.key.ID).key,
                            !.err = IF DBIndex(keys, call.key.ID) = 0
                                    THEN ErrKeyIDNotFound ELSE ErrDBVersion]
    /\ UNCHANGED <<keys, now, req, resp, nreq, kvl, upd, cli, issued, auth, fn>>

\* Another caller removes the record.
DBRemove ==
    /\ DBIndex(keys, K1) # 0
    /\ keys' = TempDBRemove(keys, K1).keys
    /\ UNCHANGED <<now, req, resp, nreq, kvl, upd, cli, call, issued, auth, fn>>

\* Another caller adds the record again.
DBAdd ==
    /\ \E key \in Range(SeedKeys), t \in Clock :
         /\ DBIndex(keys, key.ID) = 0
         /\ keys' = TempDBAdd(keys, key, t).keys
         /\ now' = t
         /\ issued' = issued \cup {t}
    /\ UNCHANGED <<req, resp, nreq, kvl, upd, cli, call, auth, fn>>

NextDB ==
    \/ DBTempUpdate
    \/ DBSQLUpdateExec
    \/ DBSQLUpdateSelect
    \/ DBRemove
    \/ DBAdd

\* The store as its records were added, their tokens the ones issued so far.
InitDB ==
    /\ ServerInit
    /\ kvl = <<>>
    /\ upd = KVLIdle
    /\ cli = [c \in Reqs |-> IdleClient]
    /\ call = NoCall
    /\ issued = Tokens(keys)
    /\ auth = AuthIdle
    /\ fn = NoFn

SpecDB == InitDB /\ [][NextDB]_vars

(***************************************************************************)
(* The client (HTTPClient.getHTTPData) calling UpdateVersion from two      *)
(* processes against the server.  Slot c of the server handles the         *)
(* requests of client c.                                                   *)
(***************************************************************************)
maxRetryAttempts == 3

\* The request HTTPClient.UpdateVersion sends: PUT /v0/keys/K1/versions/<id>/.
ClientRequest(c) ==
    Request("putVersion", U1, K1, <<>>, NoAccess, cli[c].versionID, cli[c].status, "")

InitClient ==
    /\ keys \in {SeedKeys, SeedKeysInactive}
    /\ now = 1
    /\ req = [r \in Reqs |-> IdleReq]
    /\ resp = NoResponse
    /\ nreq = 0
    /\ kvl = <<>>
    /\ upd = KVLIdle
    /\ call = NoCall
    /\ issued = {}
    /\ auth = AuthIdle
    /\ fn = NoFn
    /\ cli \in [Reqs -> {[IdleClient EXCEPT !.pc = "new", !.versionID = v, !.status = st] :
                            v \in VersionIDs, st \in VersionStatuses}]

\* getHTTPData before its loop: the request is built once, its body a buffer
\* holding the encoded form.
ClientBuild(c) ==
    /\ cli[c].pc = "new"
    /\ cli' = [cli EXCEPT ![c].pc = "do", ![c].attempt = 1, ![c].body = "full"]
    /\ resp' = NoResponse
    /\ UNCHANGED <<keys, now, req, nreq, kvl, upd, call, issued, auth, fn>>

\* The response the server wrote for slot c in this step, if any, is on its way
\* to client c; a DBVersion conflict is noted.
Delivered(c, x) ==
    IF resp'.slot = c
    THEN [x EXCEPT !.inbox = resp'.code, !.conflict = @ \/ resp'.err = ErrDBVersion]
    ELSE x

\* cli.Do(r): the request is written from the body buffer, which is left empty;
\* with the buffer already empty the transport fails on the declared
\* Content-Length and Do returns an error, which getHTTPData returns.  The
\* handler runs up to its key-manager call.
ClientDo(c) ==
    /\ cli[c].pc = "do"
    /\ IF cli[c].body = "drained"
       THEN /\ cli' = [cli EXCEPT ![c].pc = "done", ![c].result = "transportError"]
            /\ resp' = NoResponse
            /\ UNCHANGED <<req, now>>
       ELSE /\ Authorize(c, ClientRequest(c))
            /\ cli' = [cli EXCEPT ![c] = Delivered(c, [@ EXCEPT !.pc = "wait",
                                                               !.body = "drained"])]
    /\ UNCHANGED <<keys, nreq, kvl, upd, call, issued, auth, fn>>

\* The handler of slot c in keyManager.UpdateVersion: db.Get.
ClientManagerGet(c) ==
    /\ ManagerGetStep(c)
    /\ cli' = [cli EXCEPT ![c] = Delivered(c, @)]
    /\ UNCHANGED <<kvl, upd, call, issued, auth, fn>>

\* The handler of slot c in keyManager.UpdateVersion: db.Update.
ClientManagerUpdate(c) ==
    /\ ManagerUpdateStep(c)
    /\ cli' = [cli EXCEPT ![c] = Delivered(c, @)]
    /\ UNCHANGED <<kvl, upd, call, issued, auth, fn>>

\* The loop of getHTTPData on a decoded response: ok ends the call; a code
\* other than InternalServerError, or the last attempt, returns the error;
\* otherwise the client sleeps and goes round again.
ClientReceive(c) ==
    /\ cli[c].pc = "wait"
    /\ cli[c].inbox # NoCode
    /\ LET x == cli[c]
       IN cli' = [cli EXCEPT ![c] =
                    IF x.inbox = OKCode
                    THEN [x EXCEPT !.pc = "done", !.result = "ok", !.okAt = x.attempt]
                    ELSE IF x.inbox # InternalServerErrorCode
                            \/ x.attempt = maxRetryAttempts
                    THEN [x EXCEPT !.pc = "done", !.result = "error"]
                    ELSE [x EXCEPT !.pc = "do", !.attempt = x.attempt + 1,
                                   !.inbox = NoCode]]
    /\ resp' = NoResponse
    /\ UNCHANGED <<keys, now, req, nreq, kvl, upd, call, issued, auth, fn>>

NextClient ==
    \/ \E c \in Reqs : ClientBuild(c)
    \/ \E c \in Reqs : ClientDo(c)
    \/ \E c \in Reqs : ClientManagerGet(c)
    \/ \E c \in Reqs : ClientManagerUpdate(c)
    \/ \E c \in Reqs : ClientReceive(c)

SpecClient == InitClient /\ [][NextClient]_vars

(***************************************************************************)
(* One request in the Authentication decorator: the loop over the          *)
(* providers, then the rejection or the call of the decorated handler.     *)
(***************************************************************************)
\* The state of everything but the decorator and the functions called on
\* their own, when nothing else runs.
RestIdle ==
    /\ keys = <<>>
    /\ now = 1
    /\ req = [r \in Reqs |-> IdleReq]
    /\ resp = NoResponse
    /\ nreq = 0
    /\ kvl = <<>>
    /\ upd = KVLIdle
    /\ cli = [c \in Reqs |-> IdleClient]
    /\ call = NoCall
    /\ issued = {}

restVars == <<keys, now, req, resp, nreq, kvl, upd, cli, call, issued>>

HeaderBytes == {"0", "1", "t", "u", "s"}

\* The Authorization headers: absent (empty), too short, and with a token.
Headers == UNION {[1..n -> HeaderBytes] : n \in 0..MaxHeaderLen}

InitAuth ==
    /\ RestIdle
    /\ fn = NoFn
    /\ auth \in {[AuthIdle EXCEPT !.pc = "loop", !.header = h, !.i = 1,
                                  !.errReturned = ErrNoMatchingProvider] : h \in Headers}

\* One iteration of the loop over the providers.
AuthenticationTry ==
    /\ auth.pc = "loop"
    /\ auth.i <= Len(Providers)
    /\ LET p == Providers[auth.i]
           m == providerMatch(p, auth.header)
       IN IF m.match
          THEN \E res \in Authenticate(p, m.token) :
                  IF res.err # Nil
                  THEN auth' = [auth EXCEPT !.i = @ + 1, !.errReturned = res.err]
                  ELSE auth' = [auth EXCEPT
                                   !.i = @ + 1,
                                   !.defaultPrincipal =
                                       IF @ = NoPrincipal THEN res.principal ELSE @,
                                   !.allPrincipals = @ \cup {p.name}]
          ELSE auth' = [auth EXCEPT !.i = @ + 1]
    /\ UNCHANGED <<restVars, fn>>

\* After the loop: the request is rejected, or the principal is set and the
\* decorated handler is called.
AuthenticationEnd ==
    /\ auth.pc = "loop"
    /\ auth.i > Len(Providers)
    /\ auth' = IF auth.defaultPrincipal = NoPrincipal
               THEN [auth EXCEPT !.pc = "rejected", !.code = UnauthenticatedCode]
               ELSE [auth EXCEPT !.pc = "handler"]
    /\ UNCHANGED <<restVars, fn>>

NextAuth ==
    \/ AuthenticationTry
    \/ AuthenticationEnd

SpecAuth == InitAuth /\ [][NextAuth]_vars

(***************************************************************************)
(* KeyVersionList.Hash called on two version lists.                        *)
(***************************************************************************)
\* Version lists of stored keys whose versions all hold the same data.
HashInputs ==
    {l \in ValidKVLs : \A i \in 1..Len(l) : l[i].Data = l[1].Data}

\* Of these, the lists in ascending order of id holding the first data.
HashInputsInOrder ==
    {l \in HashInputs :
        /\ l[1].Data = "d1"
        /\ \A i \in 1..(Len(l) - 1) : l[i].ID < l[i + 1].ID}

InitHash ==
    /\ RestIdle
    /\ auth = AuthIdle
    /\ fn \in {[op |-> "Hash", pc |-> "new", a |-> a, b |-> b, ha |-> <<>>, hb |-> <<>>] :
                  a \in HashInputsInOrder, b \in HashInputs}

\* a.Hash() and b.Hash().
HashCall ==
    /\ fn.op = "Hash"
    /\ fn.pc = "new"
    /\ fn' = [fn EXCEPT !.pc = "done", !.ha = Hash(fn.a), !.hb = Hash(fn.b)]
    /\ UNCHANGED <<restVars, auth>>

NextHash == HashCall

SpecHash == InitHash /\ [][NextHash]_vars

(***************************************************************************)
(* ACL.Add called on the ACLs a request or a stored key can hold.          *)
(***************************************************************************)
\* Entries for three principals, two of them with the same id, with every
\* access a request can name.
ACLEntries ==
    {Access(p[1], p[2], at) :
        p \in {<<User, <<"u", "1">>>>, <<UserGroup, <<"u", "1">>>>, <<User, <<"u", "2">>>>},
        at \in {None, Read, Admin}}

\* The ACLs Add is applied to: newKey applies it to the ACL of the request,
\* which nothing has validated yet.
ACLAddInputs == UNION {[1..n -> ACLEntries] : n \in 0..MaxACLLen}

InitACL ==
    /\ RestIdle
    /\ auth = AuthIdle
    /\ fn \in {[op |-> "ACLAdd", pc |-> "new", acl |-> acl, a |-> a,
                 ret |-> <<>>, recv |-> acl] :
                  acl \in ACLAddInputs, a \in ACLEntries}

\* acl.Add(a): "ret" is the ACL returned, "recv" the ACL the caller applied
\* Add to, as it reads after the call.
ACLAddCall ==
    /\ fn.op = "ACLAdd"
    /\ fn.pc = "new"
    /\ LET res == ACLAdd(fn.acl, fn.a)
       IN fn' = [fn EXCEPT !.pc = "done", !.ret = res.ret, !.recv = res.recv]
    /\ UNCHANGED <<restVars, auth>>

NextACL == ACLAddCall

SpecACL == InitACL /\ [][NextACL]_vars

(***************************************************************************)
(* POST /v0/keys/ on a server whose default-access list the embedding      *)
(* program configures with AddDefaultAccess before it serves.              *)
(***************************************************************************)
\* The ACLs of the requests: none, one entry, the ACLs Validate refuses, and
\* an entry whose type string PrincipalType.UnmarshalJSON does not know.
NewKeyACLInputs ==
    {acl \in ACLAddInputs : Len(acl) <= 1} \cup InvalidACLInputs
        \cup {<<Access(Unknown, <<"u", "2">>, Read)>>}

InitNewKey ==
    /\ RestIdle
    /\ auth = AuthIdle
    /\ fn = [op |-> "postKeys", pc |-> "config", defaults |-> <<>>,
             principal |-> U1, acl |-> <<>>, code |-> NoCode]

\* AddDefaultAccess(a).
AddDefaultAccess ==
    /\ fn.op = "postKeys"
    /\ fn.pc = "config"
    /\ Len(fn.defaults) < MaxDefaults
    /\ \E a \in ACLEntries : fn' = [fn EXCEPT !.defaults = Append(@, a)]
    /\ UNCHANGED <<restVars, auth>>

\* postKeysHandler on an empty store, with the default-access list configured.
PostKeysWithDefaults ==
    /\ fn.op = "postKeys"
    /\ fn.pc = "config"
    /\ \E p \in Principals, acl \in NewKeyACLInputs :
         IF ~IsUser(p)
         THEN /\ fn' = [fn EXCEPT !.pc = "done", !.principal = p, !.acl = acl,
                                  !.code = UnauthorizedCode]
              /\ UNCHANGED <<keys, now>>
         ELSE \E vid \in VersionIDs, nonce \in Nonces, t \in Clock :
                LET key == newKeyWith(K1, acl, "d1", p, vid, t, fn.defaults)
                    verr == KeyValidate(key)
                    add == TempDBAdd(keys, Encrypt(key, nonce), t)
                    err == IF verr # Nil THEN verr ELSE add.err
                IN /\ keys' = IF verr # Nil THEN keys ELSE add.keys
                   /\ now' = t
                   /\ fn' = [fn EXCEPT !.pc = "done", !.principal = p, !.acl = acl,
                                       !.code = PostKeysCode(err)]
    /\ UNCHANGED <<req, resp, nreq, kvl, upd, cli, call, issued, auth>>

NextNewKey == AddDefaultAccess \/ PostKeysWithDefaults

SpecNewKey == InitNewKey /\ [][NextNewKey]_vars

(***************************************************************************)
(* One request through the handler GetRouter builds for a route, with the  *)
(* decorators main passes to it.                                           *)
(***************************************************************************)
\* The decorators of main, in the order of its list.
Decorators == <<"Logger", "AddHeader", "AddHeader", "Authentication">>

\* setupRoute(id, m)(parseParams(parameters)(decorator(route.ServeHTTP))),
\* where decorator(h) is decorators[0](decorators[1](...(h))): the functions
\* a request enters, outermost first.
Chain == <<"setupRoute", "parseParams">> \o Decorators \o <<"ServeHTTP">>

InitRouter ==
    /\ RestIdle
    /\ auth \in {[AuthIdle EXCEPT !.header = h] : h \in Headers}
    /\ fn = [op |-> "serve", pc |-> "enter", i |-> 1, trace |-> <<>>]

\* setupRoute, parseParams, Logger and AddHeader are entered: each does its
\* work on the request (Logger does its own after f returns) and calls f.
ChainEnter ==
    /\ fn.op = "serve"
    /\ fn.pc = "enter"
    /\ Chain[fn.i] \in {"setupRoute", "parseParams", "Logger", "AddHeader"}
    /\ fn' = [fn EXCEPT !.i = @ + 1, !.trace = Append(@, Chain[fn.i])]
    /\ UNCHANGED <<restVars, auth>>

\* Authentication is entered: its loop over the providers starts.
ChainAuthentication ==
    /\ fn.op = "serve"
    /\ fn.pc = "enter"
    /\ Chain[fn.i] = "Authentication"
    /\ auth.pc = "idle"
    /\ auth' = [auth EXCEPT !.pc = "loop", !.i = 1, !.errReturned = ErrNoMatchingProvider]
    /\ fn' = [fn EXCEPT !.trace = Append(@, "Authentication")]
    /\ UNCHANGED restVars

\* Authentication calls f for an authenticated request, and writes the error
\* and returns for a rejected one.
ChainAuthenticated ==
    /\ fn.op = "serve"
    /\ fn.pc = "enter"
    /\ Chain[fn.i] = "Authentication"
    /\ auth.pc \in {"handler", "rejected"}
    /\ fn' = IF auth.pc = "handler" THEN [fn EXCEPT !.i = @ + 1]
              ELSE [fn EXCEPT !.pc = "return"]
    /\ UNCHANGED <<restVars, auth>>

\* route.ServeHTTP: the handler of the route runs on the parameters and the
\* principal set on the request.
ChainServe ==
    /\ fn.op = "serve"
    /\ fn.pc = "enter"
    /\ Chain[fn.i] = "ServeHTTP"
    /\ fn' = [fn EXCEPT !.pc = "return", !.trace = Append(@, "ServeHTTP")]
    /\ UNCHANGED <<restVars, auth>>

\* The calls return; Logger writes its entry.
ChainReturn ==
    /\ fn.op = "serve"
    /\ fn.pc = "return"
    /\ fn' = [fn EXCEPT !.pc = "done", !.trace = Append(@, "log")]
    /\ UNCHANGED <<restVars, auth>>

NextRouter ==
    \/ ChainEnter
    \/ ChainAuthentication
    \/ AuthenticationTry
    \/ AuthenticationEnd
    \/ ChainAuthenticated
    \/ ChainServe
    \/ ChainReturn

SpecRouter == InitRouter /\ [][NextRouter]_vars

(***************************************************************************)
(* HTTPClient.getHTTPData for each call of the client API, against a       *)
(* server and a transport that answer anything.                            *)
(***************************************************************************)
\* The calls of the client API, with whether they pass a form to
\* getHTTPData as the body of the request.
ClientCalls ==
    {[name |-> "NetworkGetKey", form |-> FALSE], [name |-> "GetKeys", form |-> FALSE],
     [name |-> "DeleteKey", form |-> FALSE], [name |-> "GetACL", form |-> FALSE],
     [name |-> "CreateKey", form |-> TRUE], [name |-> "PutAccess", form |-> TRUE],
     [name |-> "AddVersion", form |-> TRUE], [name |-> "UpdateVersion", form |-> TRUE]}

\* What cli.Do and the decoder can produce: an error of the transport, a body
\* that is no Response, or a Response with a status and a code.
DoOutcomes ==
    {[kind |-> k, status |-> "", code |-> NoCode] : k \in {"transportError", "undecodable"}}
    \cup {[kind |-> "response", status |-> st, code |-> c] :
             st \in {"ok", "error"},
             c \in {OKCode, InternalServerErrorCode, KeyIdentifierDoesNotExistCode,
                    UnauthorizedCode}}

\* A mutant of LoopStep: the attempts are not limited.
LoopStepNoLimit(i, out) ==
    IF out.kind # "response" THEN [pc |-> "done", i |-> i, result |-> "error"]
    ELSE IF out.status = "ok" THEN [pc |-> "done", i |-> i, result |-> "ok"]
    ELSE IF out.code # InternalServerErrorCode
    THEN [pc |-> "done", i |-> i, result |-> "error"]
    ELSE [pc |-> "do", i |-> i + 1, result |-> ""]

\* A mutant of LoopStep: every error response is retried.
LoopStepRetryAnyError(i, out) ==
    IF out.kind # "response" THEN [pc |-> "done", i |-> i, result |-> "error"]
    ELSE IF out.status = "ok" THEN [pc |-> "done", i |-> i, result |-> "ok"]
    ELSE IF i = maxRetryAttempts
    THEN [pc |-> "done", i |-> i, result |-> "error"]
    ELSE [pc |-> "do", i |-> i + 1, result |-> ""]

\* The body of the loop of getHTTPData after cli.Do, in attempt i, and the
\* loop condition for the next attempt.
LoopStep(i, out) ==
    IF out.kind # "response" THEN [pc |-> "done", i |-> i, result |-> "error"]
    ELSE IF out.status = "ok" THEN [pc |-> "done", i |-> i, result |-> "ok"]
    ELSE IF out.code # InternalServerErrorCode \/ i = maxRetryAttempts
    THEN [pc |-> "done", i |-> i, result |-> "error"]
    ELSE IF i + 1 <= maxRetryAttempts THEN [pc |-> "do", i |-> i + 1, result |-> ""]
    ELSE [pc |-> "done", i |-> i + 1, result |-> "ok"]

\* getHTTPData has built the request, its body a buffer holding the form.
InitRetry ==
    /\ RestIdle
    /\ auth = AuthIdle
    /\ fn \in {[op |-> "getHTTPData", call |-> c.name, pc |-> "do", i |-> 1,
                 body |-> IF c.form THEN "full" ELSE "none", sent |-> 0, got |-> <<>>,
                 result |-> ""] : c \in ClientCalls}

\* cli.Do(r) sends the request, reading the body buffer to its end; with a
\* form whose buffer an earlier attempt has emptied, nothing is sent and Do
\* returns an error.
RetryDo ==
    /\ fn.op = "getHTTPData"
    /\ fn.pc = "do"
    /\ fn' = IF fn.body = "drained"
             THEN [fn EXCEPT !.pc = "done", !.result = "error",
                             !.got = Append(@, [kind |-> "transportError", status |-> "",
                                                code |-> NoCode])]
             ELSE [fn EXCEPT !.pc = "wait", !.sent = @ + 1,
                             !.body = IF @ = "full" THEN "drained" ELSE @]
    /\ UNCHANGED <<restVars, auth>>

\* cli.Do returns and the rest of the loop body runs.
RetryReceive ==
    /\ fn.op = "getHTTPData"
    /\ fn.pc = "wait"
    /\ \E out \in DoOutcomes :
         LET step == LoopStep(fn.i, out)
         IN fn' = [fn EXCEPT !.pc = step.pc, !.i = step.i, !.result = step.result,
                             !.got = Append(@, out)]
    /\ UNCHANGED <<restVars, auth>>

NextRetry == RetryDo \/ RetryReceive

SpecRetry == InitRetry /\ [][NextRetry]_vars

(***************************************************************************)
(* The refresh daemon, one knox register / knox unregister command, the   *)
(* server as the daemon sees it, and the cache as a client of another user *)
(* reads it, on one host.  Time is counted in sleeps of flock.lock.        *)
(***************************************************************************)
DKeys == {"k1", "k2"}
DHashes == {"h0", "h1"}

\* lockTimeout, in sleeps of the retry loop.
lockTimeout == 2

AbsentFile == [content |-> "absent", mode |-> ""]

\* A mutant of FlockTry: the lock is granted whoever holds it.
FlockTryAlways(holder, p) == TRUE

\* syscall.Flock(fd, LOCK_EX|LOCK_NB) by process p: granted unless another
\* process holds the lock.
FlockTry(holder, p) == holder \in {"none", p}

\* One iteration of the loop of flock.lock, "elapsed" after its first attempt.
LockStep(holder, p, elapsed) ==
    IF elapsed > lockTimeout THEN "timeout"
    ELSE IF FlockTry(holder, p) THEN "ok"
    ELSE "retry"

\* A mutant of GetUpdatedKeyIDs: no id is reported.
GetUpdatedKeyIDsNone(srv, versions) == {}

\* keyManager.GetUpdatedKeyIDs, on the hashes of the stored keys.
GetUpdatedKeyIDs(srv, versions) ==
    {k \in DOMAIN versions : srv[k] # "missing" /\ srv[k] # versions[k]}

\* HTTPClient.CacheGetKey by a process of another user than the daemon's.
CacheRead(f) ==
    IF f.content = "absent" THEN "absent"
    ELSE IF f.mode # "0666" THEN "denied"
    ELSE f.content

DaemonIdle ==
    [pc |-> "idle", elapsed |-> 0, keyMap |-> <<>>, todo |-> {}, cur |-> "", got |-> "",
     at0 |-> <<>>, failed |-> FALSE, read |-> {}, res |-> "", gone |-> {}]

CliIdle ==
    [pc |-> "idle", cmd |-> "", key |-> "", locked |-> FALSE, elapsed |-> 0, read |-> {},
     res |-> ""]

\* After daemon.initialize: no key is cached yet; ids are registered; the
\* server holds k1, and holds k2 or not, and may refuse k2 to this machine.
InitDaemon ==
    /\ RestIdle
    /\ auth = AuthIdle
    /\ \E reg \in {{"k1"}, DKeys}, s2 \in {"missing", "h0"}, denied \in SUBSET {"k2"} :
         /\ (s2 = "missing") => (denied = {})
         /\ fn = [op |-> "daemon", reg |-> reg,
                  files |-> [k \in DKeys |-> AbsentFile],
                  tmp |-> AbsentFile,
                  srv |-> [k \in DKeys |-> IF k = "k1" THEN "h0" ELSE s2],
                  denied |-> denied, lock |-> "none", inflight |-> FALSE, d |-> DaemonIdle,
                  c |-> CliIdle, cycles |-> 0, cmds |-> 0]

Others == <<restVars, auth>>

\* update has returned: what the daemon keeps of the cycle is what the next
\* cycle does not use, noted for the properties.
Returned(d, failed) ==
    [DaemonIdle EXCEPT !.keyMap = d.keyMap, !.at0 = d.at0, !.failed = d.failed \/ failed,
                       !.res = IF d.res = "timeout" THEN "timeout" ELSE "",
                       !.elapsed = IF d.res = "timeout" THEN d.elapsed ELSE 0]

\* daemon.loop calls update.
DaemonStart ==
    /\ fn.op = "daemon"
    /\ fn.d.pc = "idle"
    /\ fn.cycles < MaxCycles
    /\ fn' = [fn EXCEPT !.cycles = @ + 1,
                        !.d = [DaemonIdle EXCEPT !.pc = "lock", !.at0 = fn.srv]]
    /\ UNCHANGED Others

\* update: registerKeyFile.Lock().
DaemonLock ==
    /\ fn.op = "daemon"
    /\ fn.d.pc = "lock"
    /\ LET res == LockStep(fn.lock, "d", fn.d.elapsed)
       IN CASE res = "ok" ->
                 fn' = [fn EXCEPT !.lock = "d", !.d.pc = "scan", !.d.res = "ok"]
            [] res = "timeout" ->
                 fn' = [fn EXCEPT !.d = Returned([fn.d EXCEPT !.res = "timeout"], TRUE)]
            [] OTHER ->
                 \E dt \in 1..2 : fn' = [fn EXCEPT !.d.elapsed = @ + dt]
    /\ UNCHANGED Others

\* update: registerKeyFile.Get(), then the loop over the files of the key
\* directory: the hash of each cached key that is registered is noted, and
\* the files of the others are deleted.
DaemonScan ==
    /\ fn.op = "daemon"
    /\ fn.d.pc = "scan"
    /\ LET keyMap == [k \in fn.reg |->
                         IF fn.files[k].content \in DHashes THEN fn.files[k].content ELSE ""]
           files == [k \in DKeys |-> IF k \in fn.reg THEN fn.files[k] ELSE AbsentFile]
       IN fn' = IF fn.reg = {}
                THEN [fn EXCEPT !.files = files,
                                !.d = Returned([fn.d EXCEPT !.keyMap = keyMap], FALSE),
                                !.lock = "none"]
                ELSE [fn EXCEPT !.files = files, !.d.keyMap = keyMap, !.d.pc = "list"]
    /\ UNCHANGED Others

\* update: cli.GetKeys(keyMap) is sent.
DaemonList ==
    /\ fn.op = "daemon"
    /\ fn.d.pc = "list"
    /\ fn' = [fn EXCEPT !.inflight = TRUE, !.d.pc = "listWait"]
    /\ UNCHANGED Others

\* GetKeys returns: the ids the server reports, or an error, with which
\* update returns and its deferred Unlock runs.
DaemonListed ==
    /\ fn.op = "daemon"
    /\ fn.d.pc = "listWait"
    /\ \E ok \in BOOLEAN :
         fn' = IF ok
               THEN [fn EXCEPT !.inflight = FALSE, !.d.pc = "next",
                               !.d.todo = GetUpdatedKeyIDs(fn.srv, fn.d.keyMap)]
               ELSE [fn EXCEPT !.inflight = FALSE, !.d = Returned(fn.d, TRUE),
                               !.lock = "none"]
    /\ UNCHANGED Others

\* A mutant of DaemonNext: update returns at the first key that failed.
DaemonNextStopOnFailure ==
    /\ fn.op = "daemon"
    /\ fn.d.pc = "next"
    /\ IF fn.d.todo = {} \/ fn.d.failed
       THEN fn' = [fn EXCEPT !.d = Returned(fn.d, FALSE), !.lock = "none"]
       ELSE \E k \in fn.d.todo :
              fn' = [fn EXCEPT !.d.todo = @ \ {k}, !.d.cur = k, !.inflight = TRUE,
                               !.d.pc = "fetchWait"]
    /\ UNCHANGED Others

\* update: the loop over the updated keys; processKey sends NetworkGetKey for
\* the next one.  After the last, update returns and its deferred Unlock runs.
DaemonNext ==
    /\ fn.op = "daemon"
    /\ fn.d.pc = "next"
    /\ IF fn.d.todo = {}
       THEN fn' = [fn EXCEPT !.d = Returned(fn.d, FALSE), !.lock = "none"]
       ELSE \E k \in fn.d.todo :
              fn' = [fn EXCEPT !.d.todo = @ \ {k}, !.d.cur = k, !.inflight = TRUE,
                               !.d.pc = "fetchWait"]
    /\ UNCHANGED Others

\* processKey: NetworkGetKey returns the key, the error of a key that does not
\* exist or that the machine may not read, or another error.
DaemonFetched ==
    /\ fn.op = "daemon"
    /\ fn.d.pc = "fetchWait"
    /\ \E up \in BOOLEAN :
         LET k == fn.d.cur
         IN fn' = IF ~up
                  THEN [fn EXCEPT !.inflight = FALSE, !.d.pc = "next", !.d.failed = TRUE]
                  ELSE IF fn.srv[k] = "missing" \/ k \in fn.denied
                  THEN [fn EXCEPT !.inflight = FALSE, !.d.pc = "rmRead", !.d.failed = TRUE,
                                  !.d.gone = @ \cup {k}]
                  ELSE [fn EXCEPT !.inflight = FALSE, !.d.pc = "tmp", !.d.got = fn.srv[k]]
    /\ UNCHANGED Others

\* processKey: registerKeyFile.Remove, its Get.
DaemonRemoveRead ==
    /\ fn.op = "daemon"
    /\ fn.d.pc = "rmRead"
    /\ fn' = [fn EXCEPT !.d.read = fn.reg, !.d.pc = "rmWrite"]
    /\ UNCHANGED Others

\* processKey: registerKeyFile.Remove, its WriteFile.
DaemonRemoveWrite ==
    /\ fn.op = "daemon"
    /\ fn.d.pc = "rmWrite"
    /\ fn' = [fn EXCEPT !.reg = fn.d.read \ {fn.d.cur}, !.d.pc = "next", !.d.read = {}]
    /\ UNCHANGED Others

\* processKey: the temporary file is created with the mode TempFile gives it,
\* written and closed; on an error it is removed.
DaemonWriteTmp ==
    /\ fn.op = "daemon"
    /\ fn.d.pc = "tmp"
    /\ \E ok \in BOOLEAN :
         fn' = IF ok
               THEN [fn EXCEPT !.tmp = [content |-> fn.d.got, mode |-> "0600"],
                               !.d.pc = "rename"]
               ELSE [fn EXCEPT !.d.pc = "next", !.d.failed = TRUE]
    /\ UNCHANGED Others

\* processKey: os.Rename of the temporary file to the cache file of the key.
DaemonRename ==
    /\ fn.op = "daemon"
    /\ fn.d.pc = "rename"
    /\ \E ok \in BOOLEAN :
         fn' = IF ok
               THEN [fn EXCEPT !.files[fn.d.cur] = fn.tmp, !.tmp = AbsentFile,
                               !.d.pc = "chmod", !.d.got = ""]
               ELSE [fn EXCEPT !.tmp = AbsentFile, !.d.pc = "next", !.d.failed = TRUE,
                               !.d.got = ""]
    /\ UNCHANGED Others

\* processKey: os.Chmod of the cache file to defaultFilePermission.
DaemonChmod ==
    /\ fn.op = "daemon"
    /\ fn.d.pc = "chmod"
    /\ \E ok \in BOOLEAN :
         fn' = IF ok
               THEN [fn EXCEPT !.files[fn.d.cur].mode = "0666", !.d.pc = "next"]
               ELSE [fn EXCEPT !.d.pc = "next", !.d.failed = TRUE]
    /\ UNCHANGED Others

\* knox register -k key, or knox unregister key; of runUnregister the
\* repository holds one that locks the registration file and one that does
\* not.
CliStart ==
    /\ fn.op = "daemon"
    /\ fn.c.pc = "idle"
    /\ fn.cmds < MaxCommands
    /\ \E cmd \in {"register", "unregister"}, k \in DKeys, locked \in BOOLEAN :
         /\ cmd = "register" => locked
         /\ fn' = [fn EXCEPT !.cmds = @ + 1,
                             !.c = [CliIdle EXCEPT !.pc = IF locked THEN "lock" ELSE "read",
                                                   !.cmd = cmd, !.key = k,
                                                   !.locked = locked]]
    /\ UNCHANGED Others

\* runRegister, runUnregister: k.Lock().
CliLock ==
    /\ fn.op = "daemon"
    /\ fn.c.pc = "lock"
    /\ LET res == LockStep(fn.lock, "c", fn.c.elapsed)
       IN CASE res = "ok" ->
                 fn' = [fn EXCEPT !.lock = "c", !.c.pc = "read", !.c.res = "ok"]
            [] res = "timeout" ->
                 fn' = [fn EXCEPT !.c = [CliIdle EXCEPT !.res = "timeout",
                                                       !.elapsed = fn.c.elapsed]]
            [] OTHER ->
                 \E dt \in 1..2 : fn' = [fn EXCEPT !.c.elapsed = @ + dt]
    /\ UNCHANGED Others

\* KeysFile.Add, KeysFile.Remove: the Get.
CliRead ==
    /\ fn.op = "daemon"
    /\ fn.c.pc = "read"
    /\ fn' = [fn EXCEPT !.c.read = fn.reg, !.c.pc = "write"]
    /\ UNCHANGED Others

\* KeysFile.Add, KeysFile.Remove: the WriteFile (none when Add adds nothing),
\* and the Unlock that follows in the command.
CliWrite ==
    /\ fn.op = "daemon"
    /\ fn.c.pc = "write"
    /\ LET c == fn.c
           reg == IF c.cmd = "unregister" THEN c.read \ {c.key}
                  ELSE IF c.key \in c.read THEN fn.reg
                  ELSE c.read \cup {c.key}
       IN fn' = [fn EXCEPT !.reg = reg, !.c = CliIdle,
                           !.lock = IF c.locked THEN "none" ELSE @]
    /\ UNCHANGED Others

\* A version of k is added or rotated on the server, or k is deleted.
ServerChange ==
    /\ fn.op = "daemon"
    /\ \E k \in DKeys :
         \/ fn.srv[k] = "h0" /\ fn' = [fn EXCEPT !.srv[k] = "h1"]
         \/ (k = "k2" /\ fn.srv[k] # "missing") /\ fn' = [fn EXCEPT !.srv[k] = "missing"]
    /\ UNCHANGED Others

NextDaemon ==
    \/ DaemonStart
    \/ DaemonLock
    \/ DaemonScan
    \/ DaemonList
    \/ DaemonListed
    \/ DaemonNext
    \/ DaemonFetched
    \/ DaemonRemoveRead
    \/ DaemonRemoveWrite
    \/ DaemonWriteTmp
    \/ DaemonRename
    \/ DaemonChmod
    \/ CliStart
    \/ CliLock
    \/ CliRead
    \/ CliWrite
    \/ ServerChange

SpecDaemon == InitDaemon /\ [][NextDaemon]_vars

(***************************************************************************)
(* The registration file and the calls of KeysFile on it.  The file is a   *)
(* text file that knox register writes and that anything on the host can   *)
(* write; it is modelled by the sequence of its fields (strings.Fields).   *)
(***************************************************************************)
FileIDs == {"a", "b", "c"}

\* The contents a file can have: no file, or up to MaxFileLen ids, one id
\* possibly on several lines.
NoFile == [exists |-> FALSE, ids |-> <<>>]
File(ids) == [exists |-> TRUE, ids |-> ids]
FileContents == {NoFile} \cup {File(ids) : ids \in UNION {[1..n -> FileIDs] : n \in 0..MaxFileLen}}

\* The arguments of Add, Remove and Overwrite: the key of -k, or the ids of
\* the key file of -f.
KeysInputs == UNION {[1..n -> FileIDs] : n \in 0..2}

\* KeysFile.Get: the fields of the file, and whether the file could be read.
KeysFileGet(file) == IF file.exists THEN file.ids ELSE <<>>

\* The buffer written from the map newKeys: each id once, in the order the
\* iteration over the map happens to take.
Buffers(newKeys) ==
    {b \in [1..Cardinality(newKeys) -> newKeys] : Range(b) = newKeys}

NoFileCall == [op |-> "", ks |-> <<>>, before |-> NoFile, err |-> Nil]

FileCall(op, ks, before, err) == [op |-> op, ks |-> ks, before |-> before, err |-> err]

ErrWriteFile == "WriteFile failed"

InitKeysFile ==
    /\ RestIdle
    /\ auth = AuthIdle
    /\ fn \in {[op |-> "KeysFile", file |-> f, call |-> NoFileCall] : f \in FileContents}

\* ioutil.WriteFile(k.fn, buffer, 0666): on an error the file is as it was
\* (it could not be opened) or truncated.
WriteFile(file, buffer, ok) ==
    IF ok THEN {File(buffer)} ELSE {file, File(<<>>)}

\* KeysFile.Add(ks).
KeysFileAdd ==
    /\ fn.op = "KeysFile"
    /\ \E ks \in KeysInputs, ok \in BOOLEAN :
         LET oldKeys == KeysFileGet(fn.file)
             newKeys == Range(oldKeys) \cup Range(ks)
         IN IF Cardinality(newKeys) = Len(oldKeys)
            THEN ok /\ fn' = [fn EXCEPT !.call = FileCall("Add", ks, fn.file, Nil)]
            ELSE \E b \in Buffers(newKeys) : \E f \in WriteFile(fn.file, b, ok) :
                   fn' = [fn EXCEPT !.file = f,
                                    !.call = FileCall("Add", ks, fn.file,
                                                      IF ok THEN Nil ELSE ErrWriteFile)]
    /\ UNCHANGED <<restVars, auth>>

\* KeysFile.Remove(ks).
KeysFileRemove ==
    /\ fn.op = "KeysFile"
    /\ \E ks \in KeysInputs, ok \in BOOLEAN :
         LET oldKeys == KeysFileGet(fn.file)
             newKeys == Range(oldKeys) \ Range(ks)
         IN \E b \in Buffers(newKeys) : \E f \in WriteFile(fn.file, b, ok) :
              fn' = [fn EXCEPT !.file = f,
                               !.call = FileCall("Remove", ks, fn.file,
                                                 IF ok THEN Nil ELSE ErrWriteFile)]
    /\ UNCHANGED <<restVars, auth>>

\* KeysFile.Overwrite(ks).
KeysFileOverwrite ==
    /\ fn.op = "KeysFile"
    /\ \E ks \in KeysInputs, ok \in BOOLEAN :
         \E b \in Buffers(Range(ks)) : \E f \in WriteFile(fn.file, b, ok) :
           fn' = [fn EXCEPT !.file = f,
                            !.call = FileCall("Overwrite", ks, fn.file,
                                              IF ok THEN Nil ELSE ErrWriteFile)]
    /\ UNCHANGED <<restVars, auth>>

NextKeysFile ==
    \/ KeysFileAdd
    \/ KeysFileRemove
    \/ KeysFileOverwrite

SpecKeysFile == InitKeysFile /\ [][NextKeysFile]_vars

(***************************************************************************)
(* TempDB called through the DB interface: Add with any batch of keys,     *)
(* Update and Remove, by callers whose calls the lock of the database      *)
(* makes atomic and orders.                                                *)
(***************************************************************************)
K2 == <<"k", "2">>

\* The keys handed to Add and Update.
StoreKeys ==
    {DBKey(id, acl, <<>>, <<>>, v) :
        id \in {K1, K2}, acl \in {<<>>, <<Access(User, U1.ID, Admin)>>}, v \in 0..MaxTime}

\* The batches of Add: up to MaxBatch keys, an id possibly in several of them.
Batches == UNION {[1..n -> {k \in StoreKeys : k.DBVersion = 0}] : n \in 0..MaxBatch}

\* The readings of time.Now().UnixNano() during one call of Add, one for
\* each key of the batch.
Readings(n) ==
    {ts \in [1..n -> Clock] : \A i, j \in 1..n : i <= j => ts[i] <= ts[j]}

\* TempDB.Add: every key of the batch is compared with the stored keys, then
\* every key of the batch is appended.
TempDBAddBatch(ks, batch, ts) ==
    IF \E j \in 1..Len(batch), i \in 1..Len(ks) : ks[i].ID = batch[j].ID
    THEN [err |-> ErrKeyExists, keys |-> ks]
    ELSE [err |-> Nil,
          keys |-> ks \o [j \in 1..Len(batch) |-> [batch[j] EXCEPT !.DBVersion = ts[j]]]]

\* keydb.NewTempDB: no key is stored.
InitStore ==
    /\ RestIdle
    /\ auth = AuthIdle
    /\ fn = [op |-> "TempDB", call |-> "", err |-> Nil]

\* db.Add(keys...).
StoreAdd ==
    /\ fn.op = "TempDB"
    /\ \E batch \in Batches : \E ts \in Readings(Len(batch)) :
         LET res == TempDBAddBatch(keys, batch, ts)
         IN /\ keys' = res.keys
            /\ now' = IF res.err = Nil /\ Len(batch) > 0 THEN ts[Len(batch)] ELSE now
            /\ fn' = [fn EXCEPT !.call = "Add", !.err = res.err]
    /\ UNCHANGED <<req, resp, nreq, kvl, upd, cli, call, issued, auth>>

\* db.Update(key).
StoreUpdate ==
    /\ fn.op = "TempDB"
    /\ \E key \in StoreKeys, t \in Clock :
         LET res == TempDBUpdate(keys, key, t)
         IN /\ keys' = res.keys
            /\ now' = IF res.err = Nil THEN t ELSE now
            /\ fn' = [fn EXCEPT !.call = "Update", !.err = res.err]
    /\ UNCHANGED <<req, resp, nreq, kvl, upd, cli, call, issued, auth>>

\* db.Remove(id).
StoreRemove ==
    /\ fn.op = "TempDB"
    /\ \E id \in {K1, K2} :
         LET res == TempDBRemove(keys, id)
         IN /\ keys' = res.keys
            /\ fn' = [fn EXCEPT !.call = "Remove", !.err = res.err]
    /\ UNCHANGED <<now, req, resp, nreq, kvl, upd, cli, call, issued, auth>>

NextStore ==
    \/ StoreAdd
    \/ StoreUpdate
    \/ StoreRemove

SpecStore == InitStore /\ [][NextStore]_vars

(***************************************************************************)
(* keyManager.AddVersion called on its own, with a cryptor whose           *)
(* EncryptVersion can fail (its rand.Read, or another implementation of    *)
(* the Cryptor interface).                                                 *)
(***************************************************************************)
ErrRandRead == "rand.Read failed"

\* aesGCMCryptor.EncryptVersion: the encrypted version and no error, or no
\* version (a nil pointer) and the error.
EncryptVersionResult(k, v, nonce, randOK) ==
    IF randOK THEN [err |-> Nil, isNil |-> FALSE, encV |-> EncryptVersion(k, v, nonce)]
    ELSE [err |-> ErrRandRead, isNil |-> TRUE, encV |-> EncryptVersion(k, v, nonce)]

\* keyManager.AddVersion: how the call ends ("return" with its error, or
\* "panic"), whether EncryptVersion was called and failed, and the store it
\* leaves.  The error of EncryptVersion is assigned and not read; the
\* version it returns is dereferenced.
AddVersion(ks, id, v, nonce, randOK, t) ==
    LET got == TempDBGet(ks, id)
        new == AddVersionNew(got.key, v, nonce)
        k == Decrypt(got.key).key
        enc == EncryptVersionResult([k EXCEPT !.VersionList = Append(@, v)], v, nonce,
                                    randOK)
        res == TempDBUpdate(ks, new.key, t)
    IN IF got.err # Nil
       THEN [end |-> "return", err |-> got.err, encFailed |-> FALSE, keys |-> ks]
       ELSE IF new.err # Nil
       THEN [end |-> "return", err |-> new.err, encFailed |-> FALSE, keys |-> ks]
       ELSE IF enc.isNil
       THEN [end |-> "panic", err |-> Nil, encFailed |-> TRUE, keys |-> ks]
       ELSE [end |-> "return", err |-> res.err, encFailed |-> FALSE, keys |-> res.keys]

InitAddVersion ==
    /\ ServerInit
    /\ kvl = <<>>
    /\ upd = KVLIdle
    /\ cli = [c \in Reqs |-> IdleClient]
    /\ call = NoCall
    /\ issued = {}
    /\ auth = AuthIdle
    /\ fn = [op |-> "AddVersion", pc |-> "new", id |-> <<>>, v |-> NoVersion,
             end |-> "", err |-> Nil, encFailed |-> FALSE, before |-> <<>>]

\* m.AddVersion(id, v), v as postVersionHandler builds it; the call and how
\* it ended are noted.
AddVersionCall ==
    /\ fn.op = "AddVersion"
    /\ \E id \in KeyIDInputs, vid \in VersionIDs, d \in DataInputs, nonce \in Nonces,
          randOK \in BOOLEAN, t \in Clock :
         LET v == newKeyVersion(d, Active, vid, t)
             res == AddVersion(keys, id, v, nonce, randOK, t)
         IN /\ keys' = res.keys
            /\ now' = t
            /\ fn' = [fn EXCEPT !.pc = "done", !.id = id, !.v = v, !.end = res.end,
                                !.err = res.err, !.encFailed = res.encFailed,
                                !.before = keys]
    /\ UNCHANGED <<req, resp, nreq, kvl, upd, cli, call, issued, auth>>

NextAddVersion == AddVersionCall

SpecAddVersion == InitAddVersion /\ [][NextAddVersion]_vars

(***************************************************************************)
(* Properties.                                                             *)
(***************************************************************************)
PrimaryCount(vl) == Cardinality({j \in 1..Len(vl) : vl[j].Status = Primary})

\* The record stored under id (NoDBKey if there is none).
Stored(ks, id) == TempDBGet(ks, id).key

Exists(k) == k # NoDBKey

\* C1: in every reachable state of the server every stored key has exactly one
\* version whose status is Primary, whatever requests on the key are in flight.
C1_ExactlyOnePrimary ==
    \A i \in 1..Len(keys) : PrimaryCount(keys[i].VersionList) = 1

\* A promotion has just been committed while another request that writes the
\* version list of the same key is between its read and its write.
C1_Witness ==
    /\ resp.op = "putVersion" /\ resp.code = OKCode /\ resp.status = Primary
    /\ \E r \in Reqs : /\ req[r].pc = "mgrWrite"
                       /\ req[r].op \in {"postVersion", "putVersion"}
                       /\ req[r].keyID = resp.keyID
    /\ Exists(Stored(keys, resp.keyID))

\* The buffer section 4.1 of the specification feeds to SHA-256: the ids of
\* the non-Inactive versions in sorted order, and nothing else.
Section41Buffer(vl) ==
    LET live == SelectSeq(SortKVL(vl), LAMBDA kv : kv.Status # Inactive)
    IN [i \in 1..Len(live) |-> live[i].ID]

\* C2: every record a step leaves in storage carries the version hash that
\* section 4.1 defines for its version list (SHA-256 over the ids of its
\* non-Inactive versions).
C2_StoredHashIsSection41Hash ==
    [][keys' # keys =>
         \A i \in 1..Len(keys') :
            keys'[i].VersionHash = <<"sha256", Section41Buffer(keys'[i].VersionList)>>]_vars

\* C3: Update replaces the stored record only if the token of the record handed
\* to it equals the token stored for the id; when the stored token differs it
\* returns ErrDBVersion and leaves the stored record and its token as they were.
C3_UpdateOnlyOnMatchingToken ==
    call.pc = "done" =>
        /\ (call.after # call.before \/ call.err = Nil) =>
              /\ Exists(call.before)
              /\ call.before.DBVersion = call.key.DBVersion
        /\ (Exists(call.seen) /\ call.seen.DBVersion # call.key.DBVersion) =>
              /\ call.err = ErrDBVersion
              /\ call.after = call.before

\* TempDB.Update was handed a record with a stale token and refused it.
C3_Witness ==
    /\ call.pc = "done" /\ call.impl = "temp"
    /\ Exists(call.before)
    /\ call.before.DBVersion # call.key.DBVersion
    /\ call.before.ACL # call.key.ACL
    /\ call.err = ErrDBVersion
    /\ call.after = call.before

\* C4: when a DBVersion conflict has occurred between the two UpdateVersion
\* calls in flight and both calls have returned, one of them succeeded on its
\* first attempt, the other succeeded on a later attempt, and the stored key
\* validates.
C4_ConflictingUpdateRetriedToSuccess ==
    ((\A c \in Reqs : cli[c].pc = "done") /\ (\E c \in Reqs : cli[c].conflict)) =>
        /\ \E c \in Reqs : /\ cli[c].okAt = 1
                           /\ \A d \in Reqs \ {c} : cli[d].okAt > 1
        /\ \A i \in 1..Len(keys) : KeyValidate(Decrypt(keys[i]).key) = Nil

\* C5: a call of UpdateAccess, AddVersion or UpdateVersion reads the key at most
\* once and issues at most one db.Update, and has returned once that Update
\* has: after ErrDBVersion the error goes to the caller, with no second read
\* and no second write.
C5_AtMostOneUpdateNoRetry ==
    /\ \A r \in Reqs : req[r].nUpdate = 0 /\ req[r].nGet <= 1
    /\ resp.nUpdate <= 1 /\ resp.nGet <= 1
    /\ resp.err = ErrDBVersion =>
          /\ resp.nUpdate = 1 /\ resp.nGet = 1
          /\ req[resp.slot].pc = "idle"

\* A rotation lost the race: its only db.Update returned ErrDBVersion and the
\* handler answered InternalServerError.
C5_Witness ==
    /\ resp.op = "putVersion" /\ resp.err = ErrDBVersion
    /\ resp.nUpdate = 1 /\ resp.nGet = 1
    /\ resp.code = InternalServerErrorCode

\* C6 as stated: a mutating handler's write (the db.Update of PUT access, POST
\* version and PUT version, the db.Remove of DELETE key) is accepted only if the
\* stored record is still the one the handler read.
C6_WriteOnlyIfUnchangedSinceHandlerRead ==
    [][\A r \in Reqs :
         (/\ req[r].op \in MutatingOps
          /\ req[r].pc \in {"mgrWrite", "remove"}
          /\ resp'.slot = r /\ resp'.code = OKCode)
            => Stored(keys, req[r].keyID) = req[r].seen]_vars

\* C6 amended: the db.Update of PUT access, POST version and PUT version is
\* accepted only if the stored token equals the token of the record the key
\* manager read in that call, and otherwise the mutation fails and storage is
\* unchanged; the db.Remove of DELETE key is not guarded and removes whatever
\* record is stored under the id.
C6_WriteGuardedByManagerToken ==
    [][\A r \in Reqs :
         LET cur == Stored(keys, req[r].keyID)
             match == Exists(cur) /\ cur.DBVersion = req[r].encK.DBVersion
         IN /\ (req[r].pc = "mgrWrite" /\ resp'.slot = r /\ resp'.code = OKCode)
                  => match
            /\ (req[r].pc = "mgrWrite" /\ req'[r] # req[r] /\ ~match)
                  => resp'.slot = r /\ resp'.code # OKCode /\ keys' = keys
            /\ (req[r].pc = "remove" /\ req'[r] # req[r] /\ Exists(cur))
                  => /\ resp'.slot = r /\ resp'.code = OKCode
                     /\ ~Exists(Stored(keys', req[r].keyID))]_vars

\* An added version lost the race for the token: its write was refused and the
\* stored record is the winner's.
C6_Witness ==
    /\ resp.op = "postVersion" /\ resp.err = ErrDBVersion
    /\ resp.code = InternalServerErrorCode
    /\ Exists(Stored(keys, resp.keyID))

LegalTransitions == {<<Active, Primary>>, <<Active, Inactive>>, <<Inactive, Active>>}
IllegalTransitionErrors == {ErrInactiveToPrimary, ErrPrimaryToActive, ErrPrimaryToInactive}

\* The position in the list "before" of the version the last Update named (0 if none).
UpdTarget ==
    LET hit == {i \in 1..Len(upd.before) : upd.before[i].ID = upd.versionID}
    IN IF hit = {} THEN 0 ELSE Min(hit)

UpdFrom == upd.before[UpdTarget].Status

\* C7: an accepted Update is one of the three legal transitions and changes
\* only what the rotation table states: the target takes the new status, a
\* promotion turns the previous Primary into Active, every other version keeps
\* its status, and no id, data or creation time changes.
C7_LegalTransitionEffect ==
    (upd.called /\ upd.err = Nil) =>
        /\ UpdTarget # 0
        /\ <<UpdFrom, upd.status>> \in LegalTransitions
        /\ Len(kvl) = Len(upd.before)
        /\ \A j \in 1..Len(kvl) :
             /\ kvl[j].ID = upd.before[j].ID
             /\ kvl[j].Data = upd.before[j].Data
             /\ kvl[j].CreationTime = upd.before[j].CreationTime
             /\ kvl[j].Status =
                  IF j = UpdTarget THEN upd.status
                  ELSE IF upd.status = Primary /\ upd.before[j].Status = Primary
                       THEN Active
                       ELSE upd.before[j].Status

\* A promotion was accepted on a list of three versions: the target is Primary,
\* the previous Primary is Active.
C7_Witness ==
    /\ upd.called /\ upd.err = Nil /\ upd.status = Primary
    /\ Len(kvl) = 3
    /\ \E j \in 1..Len(kvl) : upd.before[j].Status = Primary /\ kvl[j].Status = Active
    /\ \E j \in 1..Len(kvl) : upd.before[j].Status = Inactive

\* C8: of the nine (from, to) combinations exactly Active->Primary,
\* Active->Inactive and Inactive->Active are accepted; each of the other six
\* returns an illegal-transition error and leaves every status as it was.
C8_OnlyLegalTransitionsAccepted ==
    (upd.called /\ UpdTarget # 0) =>
        IF <<UpdFrom, upd.status>> \in LegalTransitions
        THEN upd.err = Nil
        ELSE upd.err \in IllegalTransitionErrors /\ kvl = upd.before

\* An Inactive version was asked to become Primary and the call was refused.
C8_Witness ==
    /\ upd.called /\ UpdTarget # 0
    /\ UpdFrom = Inactive /\ upd.status = Primary
    /\ upd.err = ErrInactiveToPrimary
    /\ kvl = upd.before

\* The access level the routes table demands.
RouteAccess(op) == IF op \in {"deleteKey", "putAccess"} THEN Admin ELSE Write

\* The request that slot r took in this step.
Arrived(r) == IF resp'.slot = r THEN resp' ELSE req'[r]

PairMatches(p, header) ==
    Len(header) >= 2 /\ header[1] = p.version /\ header[2] = p.type

\* The providers that authenticated the request.
Authenticated == {j \in 1..Len(Providers) : Providers[j].name \in auth.allPrincipals}

\* C11: the handler is run only for a request that a registered provider
\* whose (version, type) pair matches the first two bytes of the header has
\* authenticated; when the loop ends without such a provider (none matches,
\* or every matching one failed), the request is rejected with
\* Unauthenticated and the handler is not run.
C11_HandlerOnlyAfterMatchingProvider ==
    /\ auth.pc = "handler" =>
          \E j \in Authenticated : PairMatches(Providers[j], auth.header)
    /\ (auth.pc \in {"handler", "rejected"}
          /\ \A j \in 1..Len(Providers) :
                 PairMatches(Providers[j], auth.header) => j \notin Authenticated)
       => (auth.pc = "rejected" /\ auth.code = UnauthenticatedCode)

\* Two providers match; the first fails, the second authenticates, and the
\* handler runs.
C11_Witness ==
    /\ auth.pc = "handler"
    /\ auth.errReturned = ErrAuthenticate
    /\ auth.allPrincipals = {"spiffe_fallback"}

\* The id of the Primary version of a valid list, and the ids of its Active
\* versions.
PrimaryID(vl) == (CHOOSE j \in 1..Len(vl) : vl[j].Status = Primary)
ActiveIDs(vl) == {vl[j].ID : j \in {k \in 1..Len(vl) : vl[k].Status = Active}}
SameLiveVersions(a, b) ==
    a[PrimaryID(a)].ID = b[PrimaryID(b)].ID /\ ActiveIDs(a) = ActiveIDs(b)

\* C12: two version lists with the same Primary id and the same set of
\* Active ids have the same hash, whatever Inactive versions and whatever
\* data they hold.
C12_HashDependsOnlyOnLiveIDs ==
    (fn.op = "Hash" /\ fn.pc = "done" /\ SameLiveVersions(fn.a, fn.b))
       => fn.ha = fn.hb

\* C13: two version lists whose Primary id differs or whose sets of Active
\* ids differ have different hashes (the byte strings given to SHA-256
\* differ).
C13_HashTellsLiveIDsApart ==
    (fn.op = "Hash" /\ fn.pc = "done" /\ ~SameLiveVersions(fn.a, fn.b))
       => fn.ha # fn.hb

\* C14: a successful storage update leaves the record with a token strictly
\* greater than the token it replaced and different from every token issued
\* before for that id.
C14_FreshGreaterToken ==
    [][(call' # call /\ call'.pc = "done" /\ call'.err = Nil)
          => /\ call'.after.DBVersion > call'.before.DBVersion
             /\ call'.after.DBVersion \notin issued]_vars

\* Version v is held by the list vl with the same encrypted data, crypto
\* metadata and creation time.
KeptIn(v, vl) ==
    \E k \in 1..Len(vl) :
        /\ vl[k].ID = v.ID
        /\ vl[k].EncData = v.EncData
        /\ vl[k].CryptoMetadata = v.CryptoMetadata
        /\ vl[k].CreationTime = v.CreationTime

\* C15: as long as its key is not deleted, a stored version keeps its id, its
\* encrypted data, its crypto metadata and its creation time through every
\* operation of the key manager; only its status changes.
C15_StoredVersionsImmutable ==
    [][\A id \in KeyIDInputs :
          (Exists(Stored(keys, id)) /\ Exists(Stored(keys', id)))
             => \A j \in 1..Len(Stored(keys, id).VersionList) :
                   KeptIn(Stored(keys, id).VersionList[j],
                          Stored(keys', id).VersionList)]_vars

\* Slot r's call of the key manager for route op returns success in this step.
Succeeds(r, op) ==
    /\ req[r].op = op
    /\ req[r].pc = "mgrWrite"
    /\ req'[r].pc = "idle"
    /\ resp'.slot = r
    /\ resp'.code = OKCode

\* vl2 holds one version more than vl1, its last one, Active, and every version
\* of vl1 with the status it has in vl1.
OneMoreActive(vl1, vl2) ==
    /\ Len(vl2) = Len(vl1) + 1
    /\ vl2[Len(vl2)].Status = Active
    /\ \A j \in 1..Len(vl1) :
          \E k \in 1..Len(vl2) : vl2[k].ID = vl1[j].ID /\ vl2[k].Status = vl1[j].Status

SamePrincipal(e, a) == e.Type = a.Type /\ e.ID = a.ID
EntriesFor(acl, a) == SelectSeq(acl, LAMBDA e : SamePrincipal(e, a))
EntriesForOthers(acl, a) == SelectSeq(acl, LAMBDA e : ~SamePrincipal(e, a))

\* C17: Add(a) removes the principal's entry when it is present and a's
\* access is None, replaces it by a (in its place) when present otherwise,
\* appends a when absent and a's access is not None, and returns the same
\* entries when absent and None; the entries for other principals are kept,
\* in their order, in every case.  (Of several entries for the principal, in
\* an ACL that is not valid, the first is the one removed or replaced.)
C17_ACLAddFourCases ==
    (fn.op = "ACLAdd" /\ fn.pc = "done") =>
        LET mine == EntriesFor(fn.acl, fn.a)
            present == mine # <<>>
            none == fn.a.AccessType = None
        IN /\ EntriesForOthers(fn.ret, fn.a) = EntriesForOthers(fn.acl, fn.a)
           /\ (present /\ none) => EntriesFor(fn.ret, fn.a) = Tail(mine)
           /\ (present /\ ~none) =>
                 /\ EntriesFor(fn.ret, fn.a) = <<fn.a>> \o Tail(mine)
                 /\ Len(fn.ret) = Len(fn.acl)
                 /\ \A j \in 1..Len(fn.acl) :
                       ~SamePrincipal(fn.acl[j], fn.a) => fn.ret[j] = fn.acl[j]
           /\ (~present /\ ~none) => fn.ret = Append(fn.acl, fn.a)
           /\ (~present /\ none) => fn.ret = fn.acl

\* A grant is revoked from an ACL that also holds entries for two other
\* principals, one of them with the same id and another type.
C17_Witness ==
    /\ fn.op = "ACLAdd"
    /\ fn.pc = "done"
    /\ fn.a = Access(User, <<"u", "1">>, None)
    /\ fn.acl = <<Access(UserGroup, <<"u", "1">>, Admin), Access(User, <<"u", "1">>, Read),
                  Access(User, <<"u", "2">>, Read)>>
    /\ fn.ret = <<Access(UserGroup, <<"u", "1">>, Admin), Access(User, <<"u", "2">>, Read)>>

\* C18: Add does not modify the ACL it is applied to: after the call that
\* ACL holds the same entries in the same order, in all four cases.
C18_ACLAddLeavesReceiver ==
    (fn.op = "ACLAdd" /\ fn.pc = "done") => fn.recv = fn.acl

\* C19: the ACL of every stored key has no two entries with the same type and
\* id, and no entry whose access is None.
C19_StoredACLsValid ==
    \A i \in 1..Len(keys) :
        LET acl == keys[i].ACL
        IN /\ \A j \in 1..Len(acl) : acl[j].AccessType # None
           /\ \A j, k \in 1..Len(acl) :
                 (acl[j].Type = acl[k].Type /\ acl[j].ID = acl[k].ID) => j = k

\* A key is stored although a POST /v0/keys/ with an ACL of two entries for
\* one principal was made (and refused), and PUT access has since added an
\* entry to the ACL of the key.
C19_Witness ==
    /\ Exists(Stored(keys, K1))
    /\ \E j \in 1..Len(Stored(keys, K1).ACL) :
          Stored(keys, K1).ACL[j] = Access(MachinePrefix, <<"m">>, Read)
    /\ resp.op = "postKeys"
    /\ resp.err = ErrACLDuplicateEntries

\* C20: after a successful POST /v0/keys/ the ACL of the stored key grants
\* the creating user Admin, whatever ACL the request supplied and whatever
\* default-access list is configured.
C20_CreatorGrantedAdmin ==
    (fn.op = "postKeys" /\ fn.pc = "done" /\ fn.code = OKCode) =>
        /\ Exists(Stored(keys, K1))
        /\ UserCanAccess(fn.principal, Stored(keys, K1).ACL, Admin)

\* C21: no ACL entry whose principal type is Unknown is ever in the store.
C21_NoUnknownTypeStored ==
    \A i \in 1..Len(keys) :
        \A j \in 1..Len(keys[i].ACL) : keys[i].ACL[j].Type # Unknown

\* C22: whenever a key-manager call of a handler fails with KeyIDNotFound,
\* be it the handler's initial read or the mutation that follows it, the
\* subcode of the response is KeyIdentifierDoesNotExist.
C22_KeyIDNotFoundSubcode ==
    resp.err = ErrKeyIDNotFound => resp.code = KeyIdentifierDoesNotExistCode

\* The order in which section 4.7 has a request pass the middleware.
Section47Order == <<"AddHeader", "Logger", "Authentication", "parseParams", "ServeHTTP">>
Section47Rank(e) == CHOOSE k \in 1..Len(Section47Order) : Section47Order[k] = e

\* C23: a request enters the middleware in the order content-type headers,
\* access logger, authentication, parameter parsing, route dispatch, and its
\* parameters are parsed only after its authentication has succeeded.
C23_ParamsParsedAfterAuthentication ==
    fn.op = "serve" =>
        /\ (\E i \in 1..Len(fn.trace) : fn.trace[i] = "parseParams") => auth.pc = "handler"
        /\ \A i, j \in 1..Len(fn.trace) :
              (i < j /\ fn.trace[i] \in Range(Section47Order)
                     /\ fn.trace[j] \in Range(Section47Order))
                  => Section47Rank(fn.trace[i]) <= Section47Rank(fn.trace[j])

\* C24: a call of the client API sends at most 3 requests, and has returned
\* once the third is answered, whatever the answers are.
C24_AtMostThreeRequests ==
    fn.op = "getHTTPData" =>
        /\ fn.sent <= 3
        /\ fn.pc = "do" => fn.sent < 3

\* Three requests were sent, each answered with InternalServerError, and the
\* call has returned the error.
C24_Witness ==
    /\ fn.op = "getHTTPData"
    /\ fn.pc = "done"
    /\ fn.sent = 3
    /\ fn.result = "error"
    /\ fn.got[3].code = InternalServerErrorCode

\* An error response with the code InternalServerError.
IsServerError(out) ==
    out.kind = "response" /\ out.status # "ok" /\ out.code = InternalServerErrorCode

\* C25: the client sends a request again only after an error response with
\* the code InternalServerError; after a transport error, an undecodable
\* response or an error response with another code the call returns the
\* error with no further request, and after an ok response it returns
\* successfully.
C25_RetryOnlyOnServerError ==
    (fn.op = "getHTTPData" /\ fn.pc \in {"do", "done"} /\ fn.got # <<>>) =>
        LET n == Len(fn.got)
            last == fn.got[n]
        IN /\ \A k \in 1..(n - 1) : IsServerError(fn.got[k])
           /\ fn.pc = "do" => (IsServerError(last) /\ fn.sent = n)
           /\ ~IsServerError(last) =>
                 /\ fn.pc = "done"
                 /\ fn.sent <= n
                 /\ fn.result = IF last.kind = "response" /\ last.status = "ok"
                                 THEN "ok" ELSE "error"

\* A request is answered with InternalServerError, sent again, and answered
\* with another error code, which ends the call.
C25_Witness ==
    /\ fn.op = "getHTTPData"
    /\ fn.pc = "done"
    /\ fn.sent = 2
    /\ IsServerError(fn.got[1])
    /\ fn.got[2] = [kind |-> "response", status |-> "error", code |-> UnauthorizedCode]
    /\ fn.result = "error"

\* C26: the daemon never holds the registration-file lock while a request
\* of its to the server is in flight.
C26_NoLockAcrossNetwork ==
    fn.op = "daemon" => ~(fn.lock = "d" /\ fn.inflight)

\* C27: a process is between the read and the write of a read-modify-write
\* of the registration file only while it holds the registration-file lock.
C27_ReadModifyWriteUnderLock ==
    fn.op = "daemon" =>
        /\ fn.c.pc = "write" => fn.lock = "c"
        /\ fn.d.pc = "rmWrite" => fn.lock = "d"

\* C28: Lock() does not wait without bound: it retries only until the lock
\* timeout has elapsed, returns the timeout error only after it has, and
\* whoever it returned success to holds the lock.
C28_LockBoundedAndExclusive ==
    fn.op = "daemon" =>
        /\ fn.d.pc = "lock" => fn.d.elapsed <= lockTimeout + 2
        /\ fn.c.pc = "lock" => fn.c.elapsed <= lockTimeout + 2
        /\ fn.d.res = "timeout" => fn.d.elapsed > lockTimeout
        /\ fn.c.res = "timeout" => fn.c.elapsed > lockTimeout
        /\ fn.d.res = "ok" => fn.lock = "d"
        /\ fn.c.res = "ok" => fn.lock = "c"

\* knox register gave up with the timeout error while the daemon held the
\* lock, and the daemon still holds it.
C28_Witness ==
    /\ fn.op = "daemon"
    /\ fn.c.res = "timeout"
    /\ fn.d.res = "ok"
    /\ fn.lock = "d"

\* C29: when a refresh cycle that began after the hash of a registered key k
\* changed to h1 on the server has completed, with the server answering the
\* daemon's calls and the cache written, the cache file of k holds h1.
C29_CacheFollowsServerHash ==
    (fn.op = "daemon" /\ fn.d.pc = "idle" /\ fn.cycles > 0 /\ ~fn.d.failed) =>
        \A k \in DOMAIN fn.d.keyMap :
            (fn.d.at0[k] = "h1" /\ fn.srv[k] = "h1") => fn.files[k].content = "h1"

\* The second cycle found h0 in the cache of k1 and h1 on the server, and
\* has left h1 in the cache.
C29_Witness ==
    /\ fn.op = "daemon"
    /\ fn.d.pc = "idle"
    /\ fn.cycles = 2
    /\ ~fn.d.failed
    /\ "k1" \in DOMAIN fn.d.keyMap
    /\ fn.d.keyMap["k1"] = "h0"
    /\ fn.d.at0["k1"] = "h1"
    /\ fn.files["k1"].content = "h1"

\* C30: whoever reads the cache file of a key, at any moment, reads a
\* complete key, the previous one or the new one (or finds no file, for a
\* key that has none yet).
C30_CacheReadsComplete ==
    fn.op = "daemon" =>
        \A k \in DKeys : CacheRead(fn.files[k]) \in {"absent", "h0", "h1"}

\* The steps of processKey, and the place of update between two of its calls.
InProcessKey == {"fetchWait", "rmRead", "rmWrite", "tmp", "rename", "chmod"}
InKeyLoop == InProcessKey \cup {"next"}

\* C31: within a refresh cycle the failure of one key does not stop the
\* cycle.  Once the server has listed the changed ids, update returns only
\* when none of them is left to process, an id leaves the ids to process only
\* by being fetched, and a failed processKey leads to the next id with the
\* ids still to process untouched.
C31_FailingKeyDoesNotAbortCycle ==
    [][fn.op = "daemon" =>
         /\ (fn.d.pc \in InKeyLoop /\ fn'.d.pc = "idle")
               => (fn.d.pc = "next" /\ fn.d.todo = {})
         /\ (fn.d.pc \in InKeyLoop /\ fn'.d.todo # fn.d.todo)
               => /\ fn.d.pc = "next"
                  /\ fn'.d.pc = "fetchWait"
                  /\ fn'.d.cur \in fn.d.todo
                  /\ fn'.d.todo = fn.d.todo \ {fn'.d.cur}
         /\ (fn.d.pc \in InProcessKey /\ fn'.d.failed /\ ~fn.d.failed)
               => fn'.d.pc \in {"next", "rmRead"}]_vars

\* A key is fetched and on its way to its cache file after the fetch of
\* another key has failed in the same cycle.
C31_Witness ==
    /\ fn.op = "daemon"
    /\ fn.d.pc = "chmod"
    /\ fn.d.failed
    /\ fn.d.cur = "k1"
    /\ fn.files["k1"].content = fn.srv["k1"]

\* C32: when the server has answered the fetch of a registered key with
\* Unauthorized or KeyIdentifierDoesNotExist, the registration file does not
\* contain the key at the moment the refresh cycle completes.
C32_RefusedKeyUnregisteredAtCycleEnd ==
    [][(fn.op = "daemon" /\ fn.d.pc = "next" /\ fn'.d.pc = "idle")
          => fn.d.gone \cap fn'.reg = {}]_vars

\* C33: after Add(ids) has returned without error, the registration file
\* contains every id of ids and every id it contained before the call,
\* whatever it contained before.
C33_AddKeepsOldAndAddsNew ==
    (fn.op = "KeysFile" /\ fn.call.op = "Add" /\ fn.call.err = Nil)
        => (Range(fn.call.ks) \cup Range(KeysFileGet(fn.call.before)))
               \subseteq Range(KeysFileGet(fn.file))

\* C34: every accepted mutation of a key is applied to the state the
\* previously accepted mutation left.  When db.Update accepts the record of a
\* PUT access, POST version or PUT version, the record that mutation was
\* computed from is the record stored at that moment, so that no accepted
\* change is overwritten by a writer that did not see it.
C34_AcceptedMutationsBuildOnStored ==
    [][\A r \in Reqs :
         (req[r].pc = "mgrWrite" /\ resp'.slot = r /\ resp'.nUpdate = req[r].nUpdate + 1
            /\ resp'.err = Nil)
           => req[r].encK = Stored(keys, req[r].keyID)]_vars

\* C35: a mutation is committed only if its principal holds the access of
\* the route on the ACL of the key as stored at the moment of the commit; a
\* principal whose grant a completed request has removed commits nothing.
C35_CommitNeedsAccessAtCommit ==
    [][\A r \in Reqs :
         (req[r].pc \in {"mgrWrite", "remove"} /\ resp'.slot = r /\ keys' # keys)
           => CanAccess(req[r].principal, Stored(keys, req[r].keyID).ACL,
                        RouteAccess(req[r].op))]_vars

\* C36: a mutating request that is answered with an error, whatever its
\* subcode, has made no change to storage: the step that answers it leaves
\* the stored keys as they were, and no earlier step of the request writes.
\* A retry after InternalServerError thus never repeats a change already made.
C36_ErrorAnswerMeansNoChange ==
    [][\A r \in Reqs :
         /\ (resp'.slot = r /\ resp'.op \in MutatingOps \cup {"postKeys"}
                /\ resp'.code # OKCode)
               => keys' = keys
         /\ (req[r].op \in MutatingOps /\ req'[r].pc # "idle" /\ req'[r] # req[r])
               => keys' = keys]_vars

\* A write of a mutating request has just been refused by db.Update and
\* answered with InternalServerError, the subcode the client retries on.
C36_Witness ==
    /\ resp.op \in MutatingOps
    /\ resp.code = InternalServerErrorCode
    /\ resp.err = ErrDBVersion
    /\ resp.nUpdate = 1

\* C37: an id of the registration file that does not exist on the server is
\* removed from the file by the daemon within a bounded number of refresh
\* cycles.  Here: once MaxCycles cycles have run, the last of them with every
\* call answered and every file operation done, and no command has touched
\* the file, no id is registered that was missing on the server when that
\* cycle began.
C37_MissingKeyUnregistered ==
    (fn.op = "daemon" /\ fn.cycles = MaxCycles /\ fn.d.pc = "idle" /\ ~fn.d.failed
       /\ fn.cmds = 0)
      => \A k \in fn.reg : fn.d.at0[k] # "missing"

\* C38: every retry attempt of a client call carries the method, the path,
\* the Authorization header and the form parameters of the first attempt.
\* The attempts share one request, so method, path and header are the same;
\* what a retry carries of the form is what is left in the body buffer when
\* cli.Do is called again.
C38_RetryCarriesForm ==
    (fn.op = "getHTTPData" /\ fn.pc = "do" /\ fn.i > 1) => fn.body # "drained"

\* C39: storage never holds two records with the same key id, whatever
\* calls of add, update and remove have been made, an add whose batch names
\* an id twice included.
C39_NoTwoRecordsWithOneID ==
    fn.op = "TempDB" =>
        \A i, j \in 1..Len(keys) : keys[i].ID = keys[j].ID => i = j

\* C40: if encrypting the new version fails during AddVersion, the call
\* returns an error to its caller and the stored key is left as it was.
C40_EncryptFailureReturnsError ==
    (fn.op = "AddVersion" /\ fn.pc = "done" /\ fn.encFailed)
        => (fn.end = "return" /\ fn.err # Nil /\ keys = fn.before)
=============================================================================
